---- MODULE Spec2Model ----
(***************************************************************************)
(* A model of the SBDF codec of spotfire-python: the table writer          *)
(* (spotfire/sbdf.py export_data), the two table readers (spotfire/sbdf.py *)
(* import_data and spotfire/fast_sbdf import_data) and the metadata maps   *)
(* (_Metadata, _TableMetadata).                                            *)
(*                                                                         *)
(* Python values are records [cls, hi, lo, s]: cls is the Python class,    *)
(* an int is hi * 2^16 + lo with 0 <= lo < 2^16 (so that values outside    *)
(* the signed 32-bit range can be written down), a str is its sequence s   *)
(* of code points.  An optional value (a cell that may be None, an         *)
(* optional metadata default) is <<>> for None and <<v>> for v.            *)
(***************************************************************************)
EXTENDS Integers, Sequences, FiniteSets, TLC

VARIABLES
    obj,               \* the object handed to export_data
    pc,                \* where the export / import run stands
    err,               \* the exception that ended the run ("" if none)
    column_types,      \* export: column name -> value type id
    tmeta,             \* export: the _TableMetadata built for the table
    row_count,         \* export: the row count _export_column_metadata returns
    row_offset,        \* export: _export_table_slices' loop variable
    dataslices,        \* export: per table slice, column name -> dataslice
    file,              \* the SBDF file on disk
    column_names,      \* readers: the column names read from the metadata
    pd_data,           \* sbdf.import_data: column name -> list of cells
    read_pos,          \* readers: number of table slices consumed so far
    table_slices,      \* fast_sbdf.import_data: packed values, per slice
    table_slice_nulls, \* fast_sbdf.import_data: packed IsInvalid, per slice
    rows_per_slice,    \* fast_sbdf.import_data: row count, per slice
    pandas_data,       \* fast_sbdf.import_data: column name -> array
    heap,              \* metadata: object id -> _Metadata
    tm,                \* metadata: the _TableMetadata under test
    tm_file,           \* metadata: what _TableMetadata.write wrote
    tm_read,           \* metadata: what _TableMetadata.read returned
    last,              \* metadata: the last call and its outcome
    call,              \* codec functions: the function called and its arguments
    result,            \* codec functions: what the call returned (<<>> before it)
    _files,            \* TempFiles: the tracked temporary files, in creation order
    disk,              \* TempFiles: the tracked names that exist in the file system
    closed,            \* TempFiles: the tracked files whose handle was closed
    with_pc,           \* TempFiles: where the `with TempFiles()` block stands
    cleanup_err        \* TempFiles: the exception the last cleanup raised ("" if none)

vars == <<obj, pc, err, column_types, tmeta, row_count, row_offset, dataslices, file,
          column_names, pd_data, read_pos, table_slices, table_slice_nulls,
          rows_per_slice, pandas_data, heap, tm, tm_file, tm_read, last, call, result,
          _files, disk, closed, with_pc, cleanup_err>>

pipeline_vars == <<obj, pc, err, column_types, tmeta, row_count, row_offset, dataslices,
                   file, column_names, pd_data, read_pos, table_slices,
                   table_slice_nulls, rows_per_slice, pandas_data>>

meta_vars == <<heap, tm, tm_file, tm_read, last>>

fn_vars == <<call, result>>

temp_vars == <<_files, disk, closed, with_pc, cleanup_err>>

----------------------------------------------------------------------------
(* Bounds of the model. *)

\* the largest number of rows of an exported table
MaxRows == 4

\* the largest number of cells of a column handed to a codec function
MaxCells == 3

\* rows per table slice; sbdf.py:308 sets 50000, the model scales it down
max_rows_per_slice == 2

\* the largest number of column maps of a written _TableMetadata
MaxColumns == 2

\* the largest number of entries of a column map of a written _TableMetadata
MaxEntries == 2

\* the longest sequence of booleans handed to the bit-array codec
MaxBits == 9

\* the largest number of table slices of a file handed to a reader on its own
MaxSlices == 2

----------------------------------------------------------------------------
(* Value type ids and value array encodings. *)

UNKNOWN == 0
BOOL == 1
INT == 2
LONG == 3
FLOAT == 4
DOUBLE == 5
DATETIME == 6
DATE == 7
TIME == 8
TIMESPAN == 9
STRING_TYPE == 10
BINARY == 12
DECIMAL == 13

PLAIN_ARRAY == 1
BIT_ARRAY == 3

----------------------------------------------------------------------------
(* Python values. *)

None == <<>>

Some(v) == <<v>>

PyInt(hi, lo) == [cls |-> "int", hi |-> hi, lo |-> lo, s |-> <<>>]

PyStr(s) == [cls |-> "str", hi |-> 0, lo |-> 0, s |-> s]

PyBytes(s) == [cls |-> "bytes", hi |-> 0, lo |-> 0, s |-> s]

PyBool(b) == [cls |-> "bool", hi |-> 0, lo |-> (IF b THEN 1 ELSE 0), s |-> <<>>]

\* pd.isnull on a cell
isnull(cell) == cell = None

\* the sequences over S of at most n elements
SeqsUpTo(S, n) == UNION {[1..k -> S] : k \in 0..n}

Min(a, b) == IF a < b THEN a ELSE b

Max(a, b) == IF a > b THEN a ELSE b

RECURSIVE Flatten(_)
Flatten(seqs) == IF seqs = <<>> THEN <<>> ELSE Head(seqs) \o Flatten(Tail(seqs))

RECURSIVE Sum(_)
Sum(ns) == IF ns = <<>> THEN 0 ELSE Head(ns) + Sum(Tail(ns))

\* seq[a:b], Python's positional slice
PySlice(seq, a, b) == SubSeq(seq, a + 1, Min(b, Len(seq)))

\* series.loc[a:b] on a RangeIndex: a label slice, which includes label b
LocSlice(seq, a, b) == SubSeq(seq, a + 1, Min(b + 1, Len(seq)))

----------------------------------------------------------------------------
(* Scalar encodings: _ValueType.to_bytes and _ValueType.to_python. *)

\* value >> (8 * k), on a possibly negative value
RECURSIVE Shr8(_, _)
Shr8(v, k) == IF k = 0 THEN v ELSE Shr8(v \div 256, k - 1)

\* whether struct.pack("<i", v) accepts v
FitsInt32(v) == v.hi >= -32768 /\ v.hi <= 32767

\* struct.pack("<i", v): 4 bytes, little-endian two's complement
to_bytes_int(v) ==
    <<v.lo % 256, v.lo \div 256, v.hi % 256, Shr8(v.hi, 1) % 256>>

\* struct.pack("<q", v): 8 bytes, little-endian two's complement; every int of
\* the model (|v| < 2^47) is in the range of "<q"
to_bytes_long(v) ==
    <<v.lo % 256, v.lo \div 256>> \o [k \in 1..6 |-> Shr8(v.hi, k - 1) % 256]

\* the unsigned number whose little-endian bytes are bs
RECURSIVE LE(_)
LE(bs) == IF bs = <<>> THEN 0 ELSE Head(bs) + 256 * LE(Tail(bs))

\* the signed number whose little-endian two's complement bytes are bs
Signed(bs) ==
    IF bs[Len(bs)] >= 128
    THEN -(LE([k \in 1..Len(bs) |-> 255 - bs[k]]) + 1)
    ELSE LE(bs)

\* struct.unpack("<i", data)
to_python_int(data) == PyInt(Signed(SubSeq(data, 3, 4)), LE(SubSeq(data, 1, 2)))

\* struct.unpack("<q", data)
to_python_long(data) == PyInt(Signed(SubSeq(data, 3, 8)), LE(SubSeq(data, 1, 2)))

\* one code point as UTF-8
Utf8(cp) ==
    IF cp < 128 THEN <<cp>>
    ELSE IF cp < 2048 THEN <<192 + (cp \div 64), 128 + (cp % 64)>>
    ELSE <<224 + (cp \div 4096), 128 + ((cp \div 64) % 64), 128 + (cp % 64)>>

\* str.encode("utf-8")
to_bytes_string(s) == Flatten([k \in 1..Len(s) |-> Utf8(s[k])])

\* bytes.decode("utf-8"), on well-formed input
RECURSIVE to_python_string(_)
to_python_string(data) ==
    IF data = <<>> THEN <<>>
    ELSE IF data[1] < 128
         THEN <<data[1]>> \o to_python_string(SubSeq(data, 2, Len(data)))
    ELSE IF data[1] < 224
         THEN <<(data[1] - 192) * 64 + (data[2] - 128)>>
                  \o to_python_string(SubSeq(data, 3, Len(data)))
    ELSE <<(data[1] - 224) * 4096 + (data[2] - 128) * 64 + (data[3] - 128)>>
             \o to_python_string(SubSeq(data, 4, Len(data)))

\* _ValueType.get_packed_size
get_packed_size(type_id) ==
    CASE type_id = BOOL -> 1
      [] type_id = INT -> 4
      [] type_id = LONG -> 8
      [] type_id = STRING_TYPE -> 0
      [] type_id = BINARY -> 0
      [] OTHER -> -1

\* _ValueType.is_array
is_array(type_id) == type_id \in {STRING_TYPE, BINARY}

\* whether _ValueType(type_id).to_bytes(v) returns bytes; otherwise struct.error
\* (a value of the wrong class or out of range) is raised as SBDFError
can_encode(type_id, v) ==
    CASE type_id = BOOL -> TRUE
      [] type_id = INT -> v.cls \in {"int", "bool"} /\ FitsInt32(v)
      [] type_id = LONG -> v.cls \in {"int", "bool"}
      [] type_id = STRING_TYPE -> v.cls = "str"
      [] type_id = BINARY -> TRUE
      [] OTHER -> TRUE

\* _ValueType(type_id).to_bytes(v)
to_bytes(type_id, v) ==
    CASE type_id = BOOL -> <<IF v.lo # 0 \/ v.hi # 0 \/ v.s # <<>> THEN 1 ELSE 0>>
      [] type_id = INT -> to_bytes_int(v)
      [] type_id = LONG -> to_bytes_long(v)
      [] type_id = STRING_TYPE -> to_bytes_string(v.s)
      [] type_id = BINARY -> v.s
      [] OTHER -> <<>>

\* _ValueType(type_id).to_python(data)
to_python(type_id, data) ==
    CASE type_id = BOOL -> PyBool(data[1] # 0)
      [] type_id = INT -> to_python_int(data)
      [] type_id = LONG -> to_python_long(data)
      [] type_id = STRING_TYPE -> PyStr(to_python_string(data))
      [] type_id = BINARY -> PyBytes(data)
      [] OTHER -> PyInt(0, 0)

\* _ValueType(type_id).missing_value()
missing_value(type_id) ==
    CASE type_id = BOOL -> PyBool(FALSE)
      [] type_id = INT -> PyInt(0, 0)
      [] type_id = LONG -> PyInt(0, 0)
      [] type_id = STRING_TYPE -> PyStr(<<>>)
      [] type_id = BINARY -> PyBytes(<<>>)
      [] OTHER -> PyInt(0, 0)

----------------------------------------------------------------------------
(* 7-bit packed integers. *)

\* _get_7bit_packed_length with the thresholds counted among the shorter lengths
get_7bit_packed_length_inclusive(value) ==
    IF value <= 128 THEN 1
    ELSE IF value <= 16384 THEN 2
    ELSE IF value <= 2097152 THEN 3
    ELSE IF value <= 268435456 THEN 4
    ELSE 5

\* _get_7bit_packed_length
get_7bit_packed_length(value) ==
    IF value < 128 THEN 1
    ELSE IF value < 16384 THEN 2
    ELSE IF value < 2097152 THEN 3
    ELSE IF value < 268435456 THEN 4
    ELSE 5

\* _write_7bit_packed_int32: the bytes written
RECURSIVE write_7bit_packed_int32(_)
write_7bit_packed_int32(value) ==
    IF value > 127
    THEN <<(value % 128) + 128>> \o write_7bit_packed_int32(value \div 128)
    ELSE <<value % 128>>

\* _read_7bit_packed_int32 at the head of data: [value, used] (bytes consumed)
RECURSIVE read_7bit_packed_int32(_)
read_7bit_packed_int32(data) ==
    IF data[1] >= 128
    THEN LET rest == read_7bit_packed_int32(Tail(data))
         IN  [value |-> (data[1] % 128) + 128 * rest.value, used |-> rest.used + 1]
    ELSE [value |-> data[1], used |-> 1]

----------------------------------------------------------------------------
(* Value arrays as they lie in the file:                                   *)
(*   [encoding, valuetype, count, byte_size, bytes]                        *)
(* count is the element count of a plain array and the bit count of a bit  *)
(* array; byte_size is the total-size prefix of a plain array of an array  *)
(* type (0 where the format has none); bytes is the payload.               *)

\* eight booleans, most significant bit first, as a byte
BitsToByte(bits) == Sum([k \in 1..8 |-> IF bits[k] THEN 2 ^ (8 - k) ELSE 0])

\* create_bit with the bits of a byte packed least significant bit first
create_bit_lsb_first(data) ==
    LET n == Len(data)
        padded == data \o [k \in 1..((8 - (n % 8)) % 8) |-> FALSE]
    IN  [encoding |-> BIT_ARRAY, valuetype |-> BOOL, count |-> n, byte_size |-> 0,
         bytes |-> [b \in 1..(Len(padded) \div 8) |->
                       Sum([k \in 1..8 |->
                           IF padded[8 * (b - 1) + k] THEN 2 ^ (k - 1) ELSE 0])]]

\* _ValueArray._create_bit followed by _ValueArray.write
create_bit(data) ==
    LET n == Len(data)
        padded == data \o [k \in 1..((8 - (n % 8)) % 8) |-> FALSE]
    IN  [encoding |-> BIT_ARRAY, valuetype |-> BOOL, count |-> n, byte_size |-> 0,
         bytes |-> [b \in 1..(Len(padded) \div 8) |->
                       BitsToByte(SubSeq(padded, 8 * (b - 1) + 1, 8 * b))]]

\* _get_bit that returns every bit of the packed bytes, the padding included
get_bit_with_padding(val1, bytes) ==
    [k \in 1..(8 * Len(bytes)) |->
        (bytes[((k - 1) \div 8) + 1] \div (2 ^ (7 - ((k - 1) % 8)))) % 2 = 1]

\* _ValueArray._get_bit: the first val1 bits of the packed bytes
get_bit(val1, bytes) ==
    [k \in 1..val1 |->
        (bytes[((k - 1) \div 8) + 1] \div (2 ^ (7 - ((k - 1) % 8)))) % 2 = 1]

\* one element of a plain array of an array type: 7-bit packed length, bytes
PackedElement(bs) == write_7bit_packed_int32(Len(bs)) \o bs

\* _SbdfObject.write_array / _write_n(packed) on a Python list of values
write_array_list(valuetype, data) ==
    LET saved_bytes == [k \in 1..Len(data) |-> to_bytes(valuetype, data[k])]
    IN  IF is_array(valuetype)
        THEN [encoding |-> PLAIN_ARRAY, valuetype |-> valuetype, count |-> Len(data),
              byte_size |-> Sum([k \in 1..Len(data) |->
                  get_7bit_packed_length(Len(saved_bytes[k])) + Len(saved_bytes[k])]),
              bytes |-> Flatten([k \in 1..Len(data) |-> PackedElement(saved_bytes[k])])]
        ELSE [encoding |-> PLAIN_ARRAY, valuetype |-> valuetype, count |-> Len(data),
              byte_size |-> 0, bytes |-> Flatten(saved_bytes)]

\* numpy's astype('U') on a cell of an object array of str: str(x)
astype_U(cell) == IF cell = None THEN <<78, 111, 110, 101>> ELSE cell[1].s

\* _SbdfObject.write_array / _write_n(packed) on a pandas Series: strings go
\* through values.astype('U'), an int64 ndarray through values.tobytes()
write_array_series(valuetype, series) ==
    IF is_array(valuetype)
    THEN LET barr == [k \in 1..Len(series) |-> to_bytes_string(astype_U(series[k]))]
         IN  [encoding |-> PLAIN_ARRAY, valuetype |-> valuetype, count |-> Len(series),
              byte_size |-> Sum([k \in 1..Len(series) |->
                  get_7bit_packed_length(Len(barr[k])) + Len(barr[k])]),
              bytes |-> Flatten([k \in 1..Len(series) |-> PackedElement(barr[k])])]
    ELSE [encoding |-> PLAIN_ARRAY, valuetype |-> valuetype, count |-> Len(series),
          byte_size |-> 0,
          bytes |-> Flatten([k \in 1..Len(series) |-> to_bytes_long(series[k][1])])]

\* whether _write_n on a Python list raises SBDFError (a cell to_bytes rejects)
write_array_fails(valuetype, data) ==
    \E k \in 1..Len(data) : ~can_encode(valuetype, data[k])

----------------------------------------------------------------------------
(* Type inference. *)

\* isinstance(v, cls): bool is a subclass of int
\* and datetime.datetime of datetime.date
IsInstance(v, cls) ==
    \/ v.cls = cls
    \/ (v.cls = "bool" /\ cls = "int")
    \/ (v.cls = "datetime" /\ cls = "date")

\* the type table of infer_from_type
TypeOfClass(cls) ==
    CASE cls = "bool" -> BOOL
      [] cls = "int32" -> INT
      [] cls = "int" -> LONG
      [] cls = "datetime" -> DATETIME
      [] cls = "date" -> DATE
      [] cls = "str" -> STRING_TYPE
      [] cls = "bytes" -> BINARY
      [] OTHER -> UNKNOWN

\* infer_from_type taking a column without a non-missing cell for a STRING column
infer_from_type_lenient(values) ==
    LET vals == SelectSeq(values, LAMBDA x : ~isnull(x))
    IN  IF vals = <<>>
        THEN [err |-> "", typeid |-> STRING_TYPE]
        ELSE IF \E k \in 1..Len(vals) : ~IsInstance(vals[k][1], vals[1][1].cls)
        THEN [err |-> "types do not match", typeid |-> UNKNOWN]
        ELSE IF TypeOfClass(vals[1][1].cls) = UNKNOWN
        THEN [err |-> "unknown type", typeid |-> UNKNOWN]
        ELSE [err |-> "", typeid |-> TypeOfClass(vals[1][1].cls)]

\* _ValueTypeId.infer_from_type: [err, typeid]
infer_from_type(values) ==
    LET vals == SelectSeq(values, LAMBDA x : ~isnull(x))
    IN  IF vals = <<>>
        THEN [err |-> "all values are missing", typeid |-> UNKNOWN]
        ELSE IF \E k \in 1..Len(vals) : ~IsInstance(vals[k][1], vals[1][1].cls)
        THEN [err |-> "types do not match", typeid |-> UNKNOWN]
        ELSE IF TypeOfClass(vals[1][1].cls) = UNKNOWN
        THEN [err |-> "unknown type", typeid |-> UNKNOWN]
        ELSE [err |-> "", typeid |-> TypeOfClass(vals[1][1].cls)]

\* infer_from_dtype that looks at the cells whatever the dtype is
infer_from_dtype_by_cells(dtype, values) == infer_from_type(values)

\* _ValueTypeId.infer_from_dtype: [err, typeid]
infer_from_dtype(dtype, values) ==
    CASE dtype = "object" -> infer_from_type(values)
      [] dtype = "bool" -> [err |-> "", typeid |-> BOOL]
      [] dtype = "int32" -> [err |-> "", typeid |-> INT]
      [] dtype = "int64" -> [err |-> "", typeid |-> LONG]
      [] OTHER -> [err |-> "unknown dtype", typeid |-> UNKNOWN]

----------------------------------------------------------------------------
(* Metadata maps: _SbdfObject, _Metadata.                                  *)
(*                                                                         *)
(* An _SbdfObject is [oid, valuetype, data].  Python compares two          *)
(* _SbdfObject instances by identity (the class defines no __eq__), so an  *)
(* object carries an object id, oid; objects the code never compares carry *)
(* oid 0.  A metadata value is a scalar: _SbdfObject.write emits data[0].  *)
(* A _Metadata is [modifiable, names, values, default_values]; every entry *)
(* holds a value (_Metadata.add and _TableMetadata.write dereference it),  *)
(* a default is optional.                                                  *)

SbdfObject(oid, valuetype, data) == [oid |-> oid, valuetype |-> valuetype, data |-> data]

Range(f) == {f[x] : x \in DOMAIN f}

\* _Metadata.__init__
EmptyMetadata ==
    [modifiable |-> TRUE, names |-> <<>>, values |-> <<>>, default_values |-> <<>>]

\* names.index(name), 1-based
IndexOf(names, name) == CHOOSE k \in 1..Len(names) : names[k] = name

\* del seq[index]
DeleteAt(seq, k) == SubSeq(seq, 1, k - 1) \o SubSeq(seq, k + 1, Len(seq))

\* _Metadata.add without the test for a name that is already present
md_add_unchecked(md, name, value, default_value) ==
    IF ~md.modifiable
    THEN [err |-> "the metadata is readonly and may not be modified", md |-> md]
    ELSE IF default_value # None /\ value.valuetype # default_value[1].valuetype
    THEN [err |-> "the valuetypes of the arguments must be equal", md |-> md]
    ELSE [err |-> "",
          md |-> [md EXCEPT !.names = Append(@, name),
                            !.values = Append(@, value),
                            !.default_values = Append(@, default_value)]]

\* _Metadata.add: [err, md]
md_add(md, name, value, default_value) ==
    IF ~md.modifiable
    THEN [err |-> "the metadata is readonly and may not be modified", md |-> md]
    ELSE IF default_value # None /\ value.valuetype # default_value[1].valuetype
    THEN [err |-> "the valuetypes of the arguments must be equal", md |-> md]
    ELSE IF name \in Range(md.names)
    THEN [err |-> "the metadata with the given name already exists", md |-> md]
    ELSE [err |-> "",
          md |-> [md EXCEPT !.names = Append(@, name),
                            !.values = Append(@, value),
                            !.default_values = Append(@, default_value)]]

\* _Metadata.remove: [err, md]
md_remove(md, name) ==
    IF ~md.modifiable
    THEN [err |-> "the metadata is readonly and may not be modified", md |-> md]
    ELSE IF name \in Range(md.names)
    THEN LET index == IndexOf(md.names, name)
         IN  [err |-> "",
              md |-> [md EXCEPT !.names = DeleteAt(@, index),
                                !.values = DeleteAt(@, index),
                                !.default_values = DeleteAt(@, index)]]
    ELSE [err |-> "", md |-> md]

\* _Metadata.get: the value under the name, None if there is none
md_get(md, name) ==
    IF name \in Range(md.names) THEN Some(md.values[IndexOf(md.names, name)]) ELSE None

\* _Metadata.set_immutable
set_immutable(md) == [md EXCEPT !.modifiable = FALSE]

\* _ColumnMetadata.set_values: Name, then DataType, added to the map
set_values(md, column_name, data_type) ==
    md_add(md_add(md, "Name", SbdfObject(0, STRING_TYPE, <<column_name>>), None).md,
           "DataType", SbdfObject(0, BINARY, <<PyBytes(<<data_type>>)>>), None).md

\* _ColumnMetadata.get_name
get_name(md) == md_get(md, "Name")[1].data[1].s

\* _ColumnMetadata.get_type
get_type(md) == md_get(md, "DataType")[1].data[1].s[1]

----------------------------------------------------------------------------
(* _TableMetadata.write and _TableMetadata.read.  The written block is     *)
(*   [table, column_count, fields, columns]                                *)
(* table: one [name, valuetype, value, default] per table-level entry;     *)
(* fields: one [name, valuetype, default] per folded column key; columns:  *)
(* per column one optional scalar per field.  An optional scalar is <<>>   *)
(* (presence byte 0) or <<bytes>>.                                         *)

\* _write_int32, for a length
Int32Bytes(n) == to_bytes_int(PyInt(0, n))

\* _SbdfObject.write: _write_n(file, 1, False)
object_write(o) ==
    IF is_array(o.valuetype)
    THEN Int32Bytes(Len(to_bytes(o.valuetype, o.data[1]))) \o to_bytes(o.valuetype, o.data[1])
    ELSE to_bytes(o.valuetype, o.data[1])

\* _SbdfObject.read: _read_n(file, 1, valuetype, False)
object_read(oid, valuetype, bytes) ==
    IF is_array(valuetype)
    THEN SbdfObject(oid, valuetype,
             <<to_python(valuetype, SubSeq(bytes, 5, 4 + LE(SubSeq(bytes, 1, 4))))>>)
    ELSE SbdfObject(oid, valuetype, <<to_python(valuetype, bytes)>>)

\* _write_optional_value
write_optional_value(value) == IF value = None THEN <<>> ELSE <<object_write(value[1])>>

\* x != y on two optional _SbdfObject references: identity
PyNe(x, y) == IF x = None \/ y = None THEN x # y ELSE x[1].oid # y[1].oid

\* the metadata names of the model in the order of Python's sorted()
NameOrder == <<"DataType", "K", "L", "Name">>

\* sorted(d) for a dict d with the key set keys
Sorted(keys) == SelectSeq(NameOrder, LAMBDA n : n \in keys)

\* the (name, value, default) triples the folding loop visits, in its order
FoldEntries(column_metadata) ==
    Flatten([c \in 1..Len(column_metadata) |->
        [k \in 1..Len(column_metadata[c].names) |->
            [name |-> column_metadata[c].names[k],
             value |-> column_metadata[c].values[k],
             default |-> column_metadata[c].default_values[k]]]])

\* cm[name] = v on a dict
DictSet(cm, name, v) == [n \in DOMAIN cm \cup {name} |-> IF n = name THEN v ELSE cm[n]]

\* the folding loop of _TableMetadata.write: [err, cm_default, cm_types]
RECURSIVE Fold(_, _)
Fold(entries, acc) ==
    IF entries = <<>> \/ acc.err # "" THEN acc
    ELSE LET e == Head(entries)
         IN  IF e.name \in DOMAIN acc.cm_default /\ PyNe(acc.cm_default[e.name], e.default)
             THEN [acc EXCEPT !.err = "the metadata is incorrect"]
             ELSE IF e.name \in DOMAIN acc.cm_types /\ acc.cm_types[e.name] # e.value.valuetype
             THEN [acc EXCEPT !.err = "the metadata is incorrect"]
             ELSE Fold(Tail(entries),
                       [err |-> "",
                        cm_default |-> DictSet(acc.cm_default, e.name, e.default),
                        cm_types |-> DictSet(acc.cm_types, e.name, e.value.valuetype)])

\* an empty dict
EmptyDict == [n \in {} |-> 0]

\* _TableMetadata.write: [err, out]
TableMetadata_write(table_metadata, column_metadata) ==
    LET folded == Fold(FoldEntries(column_metadata),
                       [err |-> "", cm_default |-> EmptyDict, cm_types |-> EmptyDict])
        keys == Sorted(DOMAIN folded.cm_default)
    IN  [err |-> folded.err,
         out |-> [table |-> [k \in 1..Len(table_metadata.names) |->
                      [name |-> table_metadata.names[k],
                       valuetype |-> table_metadata.values[k].valuetype,
                       value |-> write_optional_value(Some(table_metadata.values[k])),
                       default |-> write_optional_value(table_metadata.default_values[k])]],
                  column_count |-> Len(column_metadata),
                  fields |-> IF folded.err # "" THEN <<>> ELSE
                      [k \in 1..Len(keys) |->
                          [name |-> keys[k],
                           valuetype |-> folded.cm_types[keys[k]],
                           default |-> write_optional_value(folded.cm_default[keys[k]])]],
                  columns |-> IF folded.err # "" THEN <<>> ELSE
                      [c \in 1..Len(column_metadata) |->
                          [k \in 1..Len(keys) |->
                              write_optional_value(md_get(column_metadata[c], keys[k]))]]]]

\* the metadata.add calls of _TableMetadata.read on one map: [err, md]
RECURSIVE AddEntries(_, _)
AddEntries(acc, entries) ==
    IF entries = <<>> \/ acc.err # "" THEN acc
    ELSE AddEntries(md_add(acc.md, Head(entries).name, Head(entries).value,
                           Head(entries).default),
                    Tail(entries))

\* an optional scalar of the file as an optional _SbdfObject
read_optional_value(oid, valuetype, opt) ==
    IF opt = <<>> THEN None ELSE Some(object_read(oid, valuetype, opt[1]))

\* _TableMetadata.read: [err, table_metadata, column_metadata].  The objects
\* read as defaults are new objects, numbered from base; the default of a field
\* is one object, shared by every column that has the field.
TableMetadata_read(w, base) ==
    LET table == AddEntries([err |-> "", md |-> EmptyMetadata],
            [k \in 1..Len(w.table) |->
                [name |-> w.table[k].name,
                 value |-> object_read(0, w.table[k].valuetype, w.table[k].value[1]),
                 default |-> read_optional_value(base + k, w.table[k].valuetype,
                                                 w.table[k].default)]])
        md_default == [j \in 1..Len(w.fields) |->
            read_optional_value(base + Len(w.table) + j, w.fields[j].valuetype,
                                w.fields[j].default)]
        present(c) == SelectSeq([j \in 1..Len(w.fields) |-> j],
                                LAMBDA j : w.columns[c][j] # <<>>)
        column(c) == AddEntries([err |-> "", md |-> EmptyMetadata],
            [k \in 1..Len(present(c)) |->
                [name |-> w.fields[present(c)[k]].name,
                 value |-> object_read(0, w.fields[present(c)[k]].valuetype,
                                       w.columns[c][present(c)[k]][1]),
                 default |-> md_default[present(c)[k]]]])
    IN  [err |-> IF table.err # "" THEN table.err
                 ELSE IF \E c \in 1..w.column_count : column(c).err # ""
                 THEN column(CHOOSE c \in 1..w.column_count : column(c).err # "").err
                 ELSE "",
         table_metadata |-> set_immutable(table.md),
         column_metadata |-> [c \in 1..w.column_count |-> column(c).md]]

----------------------------------------------------------------------------
(* Reading value arrays: spotfire.sbdf. *)

\* _SbdfObject._read_n(packed) for an array type: n length-prefixed elements
RECURSIVE read_n_packed(_, _, _)
read_n_packed(valuetype, bytes, n) ==
    IF n <= 0 THEN <<>>
    ELSE LET length == read_7bit_packed_int32(bytes)
         IN  <<to_python(valuetype,
                         SubSeq(bytes, length.used + 1, length.used + length.value))>>
             \o read_n_packed(valuetype,
                    SubSeq(bytes, length.used + length.value + 1, Len(bytes)), n - 1)

\* _SbdfObject._read_n for a fixed-size type: n elements of get_packed_size bytes
read_n_fixed(valuetype, bytes, n) ==
    LET size == get_packed_size(valuetype)
    IN  [k \in 1..n |-> to_python(valuetype, SubSeq(bytes, size * (k - 1) + 1, size * k))]

\* _ValueArray.read and get_values on a plain array: the list of values
read_array(va) ==
    IF is_array(va.valuetype)
    THEN read_n_packed(va.valuetype, va.bytes, va.count)
    ELSE read_n_fixed(va.valuetype, va.bytes, va.count)

\* get_property that returns the first property whatever its name is
get_property_first(cslice, name) ==
    IF cslice.property_names # <<>> THEN Some(cslice.property_values[1]) ELSE None

\* _ColumnSlice.get_property
get_property(cslice, name) ==
    IF name \in Range(cslice.property_names)
    THEN Some(cslice.property_values[IndexOf(cslice.property_names, name)])
    ELSE None

\* import_column_slice taking a stored missing-value sentinel for a missing cell
import_column_slice_by_sentinel(cslice) ==
    LET cs_values == read_array(cslice.values)
    IN  [k \in 1..Len(cs_values) |->
            IF cs_values[k] = missing_value(cslice.values.valuetype) THEN None
            ELSE Some(cs_values[k])]

\* the body of _import_table_slices' loop over the columns of one slice: the
\* cells one column slice appends to its column
import_column_slice(cslice) ==
    LET cs_values == read_array(cslice.values)
        cs_invalid_prop == get_property(cslice, "IsInvalid")
        cs_invalid == IF cs_invalid_prop = None
                      THEN [k \in 1..Len(cs_values) |-> FALSE]
                      ELSE get_bit(cs_invalid_prop[1].count, cs_invalid_prop[1].bytes)
    IN  [k \in 1..Min(Len(cs_values), Len(cs_invalid)) |->
            IF cs_invalid[k] THEN None ELSE Some(cs_values[k])]

----------------------------------------------------------------------------
(* The tables handed to export_data.  A table is                           *)
(*   [kind, names, columns, dtype, attrs]                                  *)
(* kind "dict" is a dict of lists, kind "frame" a pandas DataFrame with    *)
(* the default RangeIndex; names is the column order; columns maps a name  *)
(* to its cells; dtype maps it to the dtype of the frame's column; attrs   *)
(* maps it to the Spotfire type name declared for the column ("" if none). *)
(* Column "a" holds Python ints (int64 in a frame, where it has no missing *)
(* cell), column "b" holds str (dtype object in a frame).                  *)

\* 500400300200, an int outside the signed 32-bit range
BigInt == PyInt(7635502, 41128)

\* a column name of the model as a Python str, and back
NameStr(name) == PyStr(IF name = "a" THEN <<97>> ELSE <<98>>)

StrName(s) == IF s = <<97>> THEN "a" ELSE "b"

\* the string of row r of column "b": a letter of its own, and on the odd
\* rows a code point that takes two bytes in UTF-8
StrAt(r) == IF r % 2 = 1 THEN <<96 + r, 233>> ELSE <<96 + r>>

IntCells(kind) ==
    IF kind = "dict" THEN {None, Some(PyInt(0, 0)), Some(BigInt)}
    ELSE {Some(PyInt(0, 0)), Some(BigInt)}

\* the columns "a" of n rows
ColumnsA(kind, n) == [1..n -> IntCells(kind)]

\* the columns "b" of n rows
ColumnsB(n) ==
    {[r \in 1..n |-> IF missing[r] THEN None ELSE Some(PyStr(StrAt(r)))] :
        missing \in [1..n -> BOOLEAN]}

\* the Spotfire type names a column of the model may declare
Declared(kind) == IF kind = "frame" THEN {"", "Integer"} ELSE {""}

Table(kind, names, a, b, declared) ==
    [kind |-> kind,
     names |-> names,
     columns |-> [c \in Range(names) |-> IF c = "a" THEN a ELSE b],
     dtype |-> [c \in Range(names) |->
                   IF kind # "frame" THEN "" ELSE IF c = "a" THEN "int64" ELSE "object"],
     attrs |-> [c \in Range(names) |-> IF c = "a" THEN declared ELSE ""]]

TablesOf(kind, n) ==
    {Table(kind, names, a, b, declared) :
        names \in {<<"a">>, <<"a", "b">>}, a \in ColumnsA(kind, n), b \in ColumnsB(n),
        declared \in Declared(kind)}

Tables == UNION {TablesOf(kind, n) : kind \in {"dict", "frame"}, n \in 0..MaxRows}

----------------------------------------------------------------------------
(* export_data. *)

\* the value type _export_columnize_data infers for a column: [err, typeid]
infer_column(o, c) ==
    IF o.kind = "frame"
    THEN infer_from_dtype(o.dtype[c], o.columns[c])
    ELSE infer_from_type(o.columns[c])

\* the first column, in column order, whose inference raises
FirstFailing(o) ==
    CHOOSE k \in 1..Len(o.names) :
        /\ infer_column(o, o.names[k]).err # ""
        /\ \A j \in 1..(k - 1) : infer_column(o, o.names[j]).err = ""

\* _export_columnize_data: the types are inferred, or SBDFError is raised
ExportColumnize ==
    /\ pc = "start"
    /\ IF \E k \in 1..Len(obj.names) : infer_column(obj, obj.names[k]).err # ""
       THEN /\ pc' = "failed"
            /\ err' = infer_column(obj, obj.names[FirstFailing(obj)]).err
            /\ UNCHANGED column_types
       ELSE /\ pc' = "metadata"
            /\ column_types' = [c \in Range(obj.names) |-> infer_column(obj, c).typeid]
            /\ UNCHANGED err
    /\ UNCHANGED <<obj, tmeta, row_count, row_offset, dataslices, file, column_names,
                   pd_data, read_pos, table_slices, table_slice_nulls, rows_per_slice,
                   pandas_data, meta_vars, fn_vars, temp_vars>>

\* _SectionTypeId
FILEHEADER == 1
TABLEMETADATA == 2
TABLESLICE == 3
COLUMNSLICE == 4
TABLEEND == 5

\* _section_write: the magic number 0xdf 0x5b and the section id
section_write(section_id) == <<223, 91, section_id>>

\* _section_read without the comparison with the magic number
section_read_any_magic(sections, p) ==
    IF p > Len(sections) THEN [err |-> "i/o error", val |-> 0]
    ELSE [err |-> "", val |-> sections[p][3]]

\* _section_read on the p-th section header of a file; _read_bytes raises on
\* an exhausted file
section_read(sections, p) ==
    IF p > Len(sections) THEN [err |-> "i/o error", val |-> 0]
    ELSE IF sections[p][1] # 223 THEN [err |-> "the SBDF magic number wasn't found", val |-> 0]
    ELSE IF sections[p][2] # 91 THEN [err |-> "the SBDF magic number wasn't found", val |-> 0]
    ELSE [err |-> "", val |-> sections[p][3]]

\* _section_expect: the error raised ("" if none)
section_expect(sections, p, section_id) ==
    LET read == section_read(sections, p)
    IN  IF read.err # "" THEN read.err
        ELSE IF read.val # section_id THEN "unexpected section id"
        ELSE ""

\* a _TableSlice.write that writes one column slice, whatever n is
table_slice_sections_one_column(n) ==
    <<section_write(TABLESLICE), section_write(COLUMNSLICE)>>

\* _TableSlice.write: the section headers of a table slice of n column slices
table_slice_sections(n) ==
    <<section_write(TABLESLICE)>> \o [k \in 1..n |-> section_write(COLUMNSLICE)]

\* one pass of the loop of _export_column_metadata: the column's own metadata
\* entries are added to a new map in the order of the dict, then set_values
\* adds Name and DataType
export_column_metadata(colmeta, colname, data_type) ==
    set_values(AddEntries([err |-> "", md |-> EmptyMetadata],
                          [k \in 1..Len(colmeta) |->
                              [name |-> colmeta[k].name, value |-> colmeta[k].value,
                               default |-> None]]).md,
               colname, data_type)

\* _export_table_metadata and _export_column_metadata: the _TableMetadata of a
\* table whose columns carry no metadata of their own
export_metadata(o, types) ==
    [table_metadata |-> set_immutable(EmptyMetadata),
     column_metadata |-> [k \in 1..Len(o.names) |->
         export_column_metadata(<<>>, NameStr(o.names[k]), types[o.names[k]])]]

\* the header, _export_table_metadata, _export_column_metadata, tmeta.write
ExportMetadata ==
    /\ pc = "metadata"
    /\ LET built == export_metadata(obj, column_types)
           written == TableMetadata_write(built.table_metadata, built.column_metadata)
       IN  IF \E k \in 1..Len(obj.names) :
                  Len(obj.columns[obj.names[k]]) # Len(obj.columns[obj.names[1]])
           THEN /\ pc' = "failed"
                /\ err' = "inconsistent column length"
                /\ UNCHANGED <<tmeta, row_count, row_offset, file>>
           ELSE IF written.err # ""
           THEN /\ pc' = "failed"
                /\ err' = written.err
                /\ tmeta' = built
                /\ UNCHANGED <<row_count, row_offset, file>>
           ELSE /\ pc' = "slices"
                /\ tmeta' = built
                /\ row_count' = Len(obj.columns[obj.names[1]])
                /\ row_offset' = 0
                /\ file' = [header |-> <<1, 0>>, tmeta |-> written.out,
                            slices |-> <<>>, end |-> FALSE,
                            sections |-> <<section_write(FILEHEADER),
                                           section_write(TABLEMETADATA)>>]
                /\ UNCHANGED err
    /\ UNCHANGED <<obj, column_types, dataslices, column_names, pd_data, read_pos,
                   table_slices, table_slice_nulls, rows_per_slice, pandas_data,
                   meta_vars, fn_vars, temp_vars>>

\* the rows one pass of _export_table_slices' loop takes of a column:
\* columns.loc[a:b, colname] on a frame, columns[colname][a:b] on a list
take_dataslice(o, colname, offset, slice_row_count) ==
    IF o.kind = "frame"
    THEN LocSlice(o.columns[colname], offset, offset + slice_row_count)
    ELSE PySlice(o.columns[colname], offset, offset + slice_row_count)

\* the IsInvalid property of a column slice: names and value arrays
invalid_property(invalid) ==
    IF \E k \in 1..Len(invalid) : invalid[k]
    THEN [names |-> <<"IsInvalid">>, values |-> <<create_bit(invalid)>>]
    ELSE [names |-> <<>>, values |-> <<>>]

\* the data of the list path: missing cells replaced by the type's missing value
fill_missing(valuetype, dataslice) ==
    [k \in 1..Len(dataslice) |->
        IF isnull(dataslice[k]) THEN missing_value(valuetype) ELSE dataslice[k][1]]

\* the column slice built and written for one column in one pass of the loop;
\* on a frame, fillna's result is dropped and the Series itself is written
export_column_slice(kind, valuetype, dataslice) ==
    LET invalid == [k \in 1..Len(dataslice) |-> isnull(dataslice[k])]
        prop == invalid_property(invalid)
    IN  [values |-> IF kind = "frame"
                    THEN write_array_series(valuetype, dataslice)
                    ELSE write_array_list(valuetype, fill_missing(valuetype, dataslice)),
         property_names |-> prop.names,
         property_values |-> prop.values]

\* one pass of the loop of _export_table_slices: a table slice is written
ExportSlice ==
    /\ pc = "slices"
    /\ row_offset < row_count
    /\ LET slice_row_count == Min(max_rows_per_slice, row_count - row_offset)
           taken == [c \in Range(obj.names) |->
                        take_dataslice(obj, c, row_offset, slice_row_count)]
       IN  IF obj.kind # "frame" /\ \E c \in Range(obj.names) :
                  write_array_fails(column_types[c], fill_missing(column_types[c], taken[c]))
           THEN /\ pc' = "failed"
                /\ err' = "value is outside representable range"
                /\ UNCHANGED <<row_offset, dataslices, file>>
           ELSE /\ file' = [file EXCEPT !.slices = Append(@,
                                [k \in 1..Len(obj.names) |->
                                    export_column_slice(obj.kind, column_types[obj.names[k]],
                                                        taken[obj.names[k]])]),
                                        !.sections = @ \o table_slice_sections(Len(obj.names))]
                /\ dataslices' = Append(dataslices, taken)
                /\ row_offset' = row_offset + slice_row_count
                /\ UNCHANGED <<pc, err>>
    /\ UNCHANGED <<obj, column_types, tmeta, row_count, column_names, pd_data, read_pos,
                   table_slices, table_slice_nulls, rows_per_slice, pandas_data, meta_vars, fn_vars, temp_vars>>

\* the loop of _export_table_slices ends: _TableSlice.write_end
ExportEnd ==
    /\ pc = "slices"
    /\ row_offset >= row_count
    /\ file' = [file EXCEPT !.end = TRUE,
                            !.sections = Append(@, section_write(TABLEEND))]
    /\ pc' = "exported"
    /\ UNCHANGED <<obj, err, column_types, tmeta, row_count, row_offset, dataslices,
                   column_names, pd_data, read_pos, table_slices, table_slice_nulls,
                   rows_per_slice, pandas_data, meta_vars, fn_vars, temp_vars>>

----------------------------------------------------------------------------
(* spotfire.sbdf.import_data. *)

\* the header check, _TableMetadata.read and _import_column_metadata
ImportBegin ==
    /\ pc = "exported"
    /\ LET read == TableMetadata_read(file.tmeta, 1)
       IN  IF section_expect(file.sections, 1, FILEHEADER) # ""
           THEN /\ pc' = "failed"
                /\ err' = section_expect(file.sections, 1, FILEHEADER)
                /\ UNCHANGED <<column_names, pd_data>>
           ELSE IF file.header # <<1, 0>>
           THEN /\ pc' = "failed"
                /\ err' = "unsupported file version"
                /\ UNCHANGED <<column_names, pd_data>>
           ELSE IF section_expect(file.sections, 2, TABLEMETADATA) # ""
           THEN /\ pc' = "failed"
                /\ err' = section_expect(file.sections, 2, TABLEMETADATA)
                /\ UNCHANGED <<column_names, pd_data>>
           ELSE IF read.err # ""
           THEN /\ pc' = "failed"
                /\ err' = read.err
                /\ UNCHANGED <<column_names, pd_data>>
           ELSE /\ pc' = "import"
                /\ column_names' = [k \in 1..Len(read.column_metadata) |->
                                       StrName(get_name(read.column_metadata[k]))]
                /\ pd_data' = [c \in {StrName(get_name(read.column_metadata[k])) :
                                         k \in 1..Len(read.column_metadata)} |-> <<>>]
                /\ UNCHANGED err
    /\ read_pos' = 0
    /\ UNCHANGED <<obj, column_types, tmeta, row_count, row_offset, dataslices, file,
                   table_slices, table_slice_nulls, rows_per_slice, pandas_data,
                   meta_vars, fn_vars, temp_vars>>

\* the index of the section header the next _TableSlice.read starts at: the
\* two leading sections and the table slices consumed so far lie before it
next_section == 3 + read_pos * (1 + Len(column_names))

\* the first error _section_expect(COLUMNSLICE) raises in the n column slices
\* that follow the table slice header at p ("" if none)
column_slices_expect(sections, p, n) ==
    LET bad == {k \in 1..n : section_expect(sections, p + k, COLUMNSLICE) # ""}
    IN  IF bad = {} THEN ""
        ELSE section_expect(sections, p + (CHOOSE k \in bad : \A j \in bad : k <= j),
                            COLUMNSLICE)

\* one pass of the loop of _import_table_slices: _TableSlice.read returns a
\* table slice and each column slice is appended to its column
ImportSlice ==
    /\ pc = "import"
    /\ section_read(file.sections, next_section) # [err |-> "", val |-> TABLEEND]
    /\ LET head == section_read(file.sections, next_section)
           tslice == file.slices[read_pos + 1]
       IN  IF head.err # ""
           THEN /\ pc' = "failed"
                /\ err' = head.err
                /\ UNCHANGED <<pd_data, read_pos>>
           ELSE IF head.val # TABLESLICE
           THEN /\ pc' = "failed"
                /\ err' = "unexpected section id"
                /\ UNCHANGED <<pd_data, read_pos>>
           ELSE IF read_pos >= Len(file.slices)
           THEN /\ pc' = "failed"
                /\ err' = "i/o error"
                /\ UNCHANGED <<pd_data, read_pos>>
           ELSE IF Len(tslice) # Len(column_names)
           THEN /\ pc' = "failed"
                /\ err' = "the number of the columnslice doesn't match"
                /\ UNCHANGED <<pd_data, read_pos>>
           ELSE IF column_slices_expect(file.sections, next_section, Len(tslice)) # ""
           THEN /\ pc' = "failed"
                /\ err' = column_slices_expect(file.sections, next_section, Len(tslice))
                /\ UNCHANGED <<pd_data, read_pos>>
           ELSE /\ pd_data' = [c \in DOMAIN pd_data |->
                                  pd_data[c] \o
                                  import_column_slice(tslice[IndexOf(column_names, c)])]
                /\ read_pos' = read_pos + 1
                /\ UNCHANGED <<pc, err>>
    /\ UNCHANGED <<obj, column_types, tmeta, row_count, row_offset, dataslices, file,
                   column_names, table_slices, table_slice_nulls, rows_per_slice,
                   pandas_data, meta_vars, fn_vars, temp_vars>>

\* _TableSlice.read meets the end-of-table marker: the DataFrame is returned
ImportEnd ==
    /\ pc = "import"
    /\ section_read(file.sections, next_section) = [err |-> "", val |-> TABLEEND]
    /\ pc' = "imported"
    /\ UNCHANGED <<obj, err, column_types, tmeta, row_count, row_offset, dataslices,
                   file, column_names, pd_data, read_pos, table_slices,
                   table_slice_nulls, rows_per_slice, pandas_data, meta_vars, fn_vars, temp_vars>>

----------------------------------------------------------------------------
(* spotfire.fast_sbdf.import_data.  A packed array is                      *)
(*   [cls, array_bytes, array_type, n, read_mask]                          *)
(* cls "PackedPlainArray" leaves read_mask empty, cls "PackedBitArray"     *)
(* carries the mask of the bits that are values and not padding.           *)

\* the fixed-size value types of N_BYTES_OF_FIXED_SIZE_VALUE_TYPE
IsFixedSize(value_type) == value_type \in {BOOL, INT, LONG}

\* N_BYTES_OF_FIXED_SIZE_VALUE_TYPE[value_type]
N_BYTES_OF_FIXED_SIZE_VALUE_TYPE(value_type) ==
    CASE value_type = BOOL -> 1
      [] value_type = INT -> 4
      [] value_type = LONG -> 8
      [] OTHER -> 0

\* next_bytes_as_packed_array
next_bytes_as_packed_array(va) ==
    IF va.encoding = PLAIN_ARRAY
    THEN [cls |-> "PackedPlainArray",
          array_bytes |-> SubSeq(va.bytes, 1,
              IF IsFixedSize(va.valuetype)
              THEN va.count * N_BYTES_OF_FIXED_SIZE_VALUE_TYPE(va.valuetype)
              ELSE va.byte_size),
          array_type |-> va.valuetype, n |-> va.count, read_mask |-> <<>>]
    ELSE LET n_bytes == (va.count \div 8) + (IF va.count % 8 > 0 THEN 1 ELSE 0)
         IN  [cls |-> "PackedBitArray",
              array_bytes |-> SubSeq(va.bytes, 1, n_bytes),
              array_type |-> va.valuetype, n |-> va.count,
              read_mask |-> [k \in 1..(8 * n_bytes) |-> k <= va.count]]

\* PackedPlainArray.concatenate
PackedPlainArray_concatenate(packed_arrays) ==
    IF packed_arrays = <<>>
    THEN [cls |-> "PackedPlainArray", array_bytes |-> <<>>, array_type |-> BOOL,
          n |-> 0, read_mask |-> <<>>]
    ELSE [cls |-> "PackedPlainArray",
          array_bytes |-> Flatten([k \in 1..Len(packed_arrays) |->
                                      packed_arrays[k].array_bytes]),
          array_type |-> packed_arrays[1].array_type,
          n |-> Sum([k \in 1..Len(packed_arrays) |-> packed_arrays[k].n]),
          read_mask |-> <<>>]

\* PackedBitArray.concatenate
PackedBitArray_concatenate(packed_arrays) ==
    [cls |-> "PackedBitArray",
     array_bytes |-> Flatten([k \in 1..Len(packed_arrays) |-> packed_arrays[k].array_bytes]),
     array_type |-> BOOL,
     n |-> Sum([k \in 1..Len(packed_arrays) |-> packed_arrays[k].n]),
     read_mask |-> Flatten([k \in 1..Len(packed_arrays) |-> packed_arrays[k].read_mask])]

\* PackedBitArray.empty whose read_mask keeps the padding bits
PackedBitArray_empty_unmasked(n_bits) ==
    LET n_bytes == (n_bits \div 8) + (IF n_bits % 8 > 0 THEN 1 ELSE 0)
    IN  [cls |-> "PackedBitArray",
         array_bytes |-> [k \in 1..n_bytes |-> 0],
         array_type |-> BOOL, n |-> n_bits,
         read_mask |-> [k \in 1..(8 * n_bytes) |-> TRUE]]

\* PackedBitArray.empty
PackedBitArray_empty(n_bits) ==
    LET n_bytes == (n_bits \div 8) + (IF n_bits % 8 > 0 THEN 1 ELSE 0)
    IN  [cls |-> "PackedBitArray",
         array_bytes |-> [k \in 1..n_bytes |-> 0],
         array_type |-> BOOL, n |-> n_bits,
         read_mask |-> [k \in 1..(8 * n_bytes) |-> k <= n_bits]]

\* np.unpackbits: eight booleans per byte, most significant bit first
unpackbits(bytes) ==
    Flatten([k \in 1..Len(bytes) |->
        [b \in 1..8 |-> (bytes[k] \div (2 ^ (8 - b))) % 2 = 1]])

\* arr[mask]: the elements of arr where mask holds
BoolIndex(arr, mask) ==
    LET idx == SelectSeq([k \in 1..Len(arr) |-> k], LAMBDA k : mask[k])
    IN  [k \in 1..Len(idx) |-> arr[idx[k]]]

\* unpack_bit_array
unpack_bit_array(array) == BoolIndex(unpackbits(array.array_bytes), array.read_mask)

\* the chunks _repack_numpy_array finds: n length-prefixed byte strings
RECURSIVE repack_chunks(_, _)
repack_chunks(b, n) ==
    IF n = 0 THEN <<>>
    ELSE LET length == read_7bit_packed_int32(b)
         IN  <<SubSeq(b, length.used + 1, length.used + length.value)>>
             \o repack_chunks(SubSeq(b, length.used + length.value + 1, Len(b)), n - 1)

\* an element of a numpy U array: the trailing zero code points are dropped
RECURSIVE StripZeros(_)
StripZeros(cps) ==
    IF cps # <<>> /\ cps[Len(cps)] = 0 THEN StripZeros(SubSeq(cps, 1, Len(cps) - 1)) ELSE cps

\* unpack_packed_array: np.frombuffer for the fixed-size types; for STRING,
\* _repack_numpy_array makes every byte one code point of a fixed-width string
unpack_packed_array(array) ==
    CASE array.array_type = BOOL ->
            [k \in 1..Len(array.array_bytes) |-> PyBool(array.array_bytes[k] # 0)]
      [] array.array_type = INT ->
            [k \in 1..(Len(array.array_bytes) \div 4) |->
                to_python_int(SubSeq(array.array_bytes, 4 * (k - 1) + 1, 4 * k))]
      [] array.array_type = LONG ->
            [k \in 1..(Len(array.array_bytes) \div 8) |->
                to_python_long(SubSeq(array.array_bytes, 8 * (k - 1) + 1, 8 * k))]
      [] OTHER ->
            [k \in 1..array.n |->
                PyStr(StripZeros(repack_chunks(array.array_bytes, array.n)[k]))]

\* np.nan
NaN == [cls |-> "nan", hi |-> 0, lo |-> 0, s |-> <<>>]

\* the cells of a column once the missing mask is applied: where the mask has
\* a set bit, a STRING or BINARY column gets None in the masked cells and any
\* other column is cast to float64 and gets NaN there
apply_missing_mask(col_type, col_array, missing_mask) ==
    IF \E k \in 1..Len(missing_mask) : missing_mask[k]
    THEN IF col_type \in {STRING_TYPE, BINARY}
         THEN [k \in 1..Len(col_array) |->
                  IF missing_mask[k] THEN None ELSE Some(col_array[k])]
         ELSE [k \in 1..Len(col_array) |->
                  IF missing_mask[k] THEN Some(NaN)
                  ELSE Some([col_array[k] EXCEPT !.cls = "float"])]
    ELSE [k \in 1..Len(col_array) |-> Some(col_array[k])]

\* a value of the column metadata of column c, by field name
fast_column_value(w, c, name) ==
    LET j == CHOOSE j \in 1..Len(w.fields) : w.fields[j].name = name
    IN  object_read(0, w.fields[j].valuetype, w.columns[c][j][1]).data[1]

\* column_names of fast_sbdf.import_data
fast_column_names(w) ==
    [c \in 1..w.column_count |-> StrName(fast_column_value(w, c, "Name").s)]

\* column_types of fast_sbdf.import_data, by column name
fast_column_type(w, col_name) ==
    fast_column_value(w, IndexOf(fast_column_names(w), col_name), "DataType").s[1]

\* the file header, the table metadata and the column metadata are read; the
\* model reads a file with fast_sbdf once spotfire.sbdf has read it
FastBegin ==
    /\ pc = "imported"
    /\ IF file.header # <<1, 0>>
       THEN /\ pc' = "failed"
            /\ err' = "Only version 1.0 supported"
            /\ UNCHANGED column_names
       ELSE /\ pc' = "fast"
            /\ column_names' = fast_column_names(file.tmeta)
            /\ UNCHANGED err
    /\ read_pos' = 0
    /\ rows_per_slice' = <<>>
    /\ table_slices' = <<>>
    /\ table_slice_nulls' = <<>>
    /\ UNCHANGED <<obj, column_types, tmeta, row_count, row_offset, dataslices, file,
                   pd_data, pandas_data, meta_vars, fn_vars, temp_vars>>

\* one pass of the reading loop: the next table slice is kept as packed arrays;
\* a negative element count makes file.read take the rest of the file, and the
\* next integer is unpacked from no bytes
FastSlice ==
    /\ pc = "fast"
    /\ read_pos < Len(file.slices)
    /\ LET tslice == file.slices[read_pos + 1]
           cslice(c) == tslice[IndexOf(column_names, c)]
           current_slice == [c \in Range(column_names) |->
                                next_bytes_as_packed_array(cslice(c).values)]
           current_slice_nulls ==
               [c \in {d \in Range(column_names) :
                          "IsInvalid" \in Range(cslice(d).property_names)} |->
                   next_bytes_as_packed_array(get_property(cslice(c), "IsInvalid")[1])]
       IN  IF \E c \in Range(column_names) : cslice(c).values.count < 0
           THEN /\ pc' = "failed"
                /\ err' = "unpack requires a buffer of 4 bytes"
                /\ UNCHANGED <<rows_per_slice, table_slices, table_slice_nulls, read_pos>>
           ELSE /\ rows_per_slice' = Append(rows_per_slice, current_slice[column_names[1]].n)
                /\ table_slices' = Append(table_slices, current_slice)
                /\ table_slice_nulls' = Append(table_slice_nulls, current_slice_nulls)
                /\ read_pos' = read_pos + 1
                /\ UNCHANGED <<pc, err>>
    /\ UNCHANGED <<obj, column_types, tmeta, row_count, row_offset, dataslices,
                   file, column_names, pd_data, pandas_data, meta_vars, fn_vars, temp_vars>>

\* packed_full_column joining the chunks last slice first
packed_full_column_reversed(slices, col_name) ==
    PackedPlainArray_concatenate([k \in 1..Len(slices) |->
        slices[Len(slices) + 1 - k][col_name]])

\* packed_full_columns[col_name]
packed_full_column(slices, col_name) ==
    PackedPlainArray_concatenate([k \in 1..Len(slices) |-> slices[k][col_name]])

\* packed_missing_masks[col_name]
packed_missing_mask(nulls, rows, col_name) ==
    PackedBitArray_concatenate([k \in 1..Len(nulls) |->
        IF col_name \in DOMAIN nulls[k] THEN nulls[k][col_name]
        ELSE PackedBitArray_empty(rows[k])])

\* the table end is met: the slices are concatenated, unpacked and masked, and
\* pd.DataFrame is built; a missing mask with a set bit whose length is not the
\* column's fails in col_array.loc[missing_mask], columns of different lengths
\* fail in pd.DataFrame(pandas_data)
FastFinish ==
    /\ pc = "fast"
    /\ read_pos = Len(file.slices)
    /\ file.end
    /\ LET col_array == [c \in Range(column_names) |->
               unpack_packed_array(packed_full_column(table_slices, c))]
           missing_mask == [c \in Range(column_names) |->
               unpack_bit_array(packed_missing_mask(table_slice_nulls, rows_per_slice, c))]
       IN  IF \E c \in Range(column_names) :
                  /\ packed_full_column(table_slices, c).array_type = STRING_TYPE
                  /\ packed_full_column(table_slices, c).n = 0
           THEN /\ pc' = "failed"
                /\ err' = "zero-size array to reduction operation maximum"
                /\ UNCHANGED pandas_data
           ELSE IF \E c \in Range(column_names) :
                  /\ \E k \in 1..Len(missing_mask[c]) : missing_mask[c][k]
                  /\ Len(missing_mask[c]) # Len(col_array[c])
           THEN /\ pc' = "failed"
                /\ err' = "Boolean index has wrong length"
                /\ UNCHANGED pandas_data
           ELSE IF \E c, d \in Range(column_names) : Len(col_array[c]) # Len(col_array[d])
           THEN /\ pc' = "failed"
                /\ err' = "All arrays must be of the same length"
                /\ UNCHANGED pandas_data
           ELSE /\ pc' = "fast_done"
                /\ pandas_data' = [c \in Range(column_names) |->
                       apply_missing_mask(fast_column_type(file.tmeta, c),
                                          col_array[c], missing_mask[c])]
                /\ UNCHANGED err
    /\ UNCHANGED <<obj, column_types, tmeta, row_count, row_offset, dataslices, file,
                   column_names, pd_data, read_pos, table_slices, table_slice_nulls,
                   rows_per_slice, meta_vars, fn_vars, temp_vars>>

----------------------------------------------------------------------------
(* The export / import pipeline. *)

InitMeta ==
    /\ heap = <<>>
    /\ tm = None
    /\ tm_file = None
    /\ tm_read = None
    /\ last = [op |-> "", m |-> 0, err |-> ""]

InitPipeline ==
    /\ pc = "start"
    /\ err = ""
    /\ column_types = EmptyDict
    /\ tmeta = None
    /\ row_count = 0
    /\ row_offset = 0
    /\ dataslices = <<>>
    /\ file = [header |-> <<>>, tmeta |-> None, slices |-> <<>>, end |-> FALSE,
               sections |-> <<>>]
    /\ column_names = <<>>
    /\ pd_data = EmptyDict
    /\ read_pos = 0
    /\ table_slices = <<>>
    /\ table_slice_nulls = <<>>
    /\ rows_per_slice = <<>>
    /\ pandas_data = EmptyDict

\* no codec function is called on its own
NoCall ==
    /\ call = [fn |-> ""]
    /\ result = <<>>

\* no `with TempFiles()` block is entered
NoTemp ==
    /\ _files = <<>>
    /\ disk = {}
    /\ closed = {}
    /\ with_pc = ""
    /\ cleanup_err = ""

Init ==
    /\ NoTemp
    /\ obj \in Tables
    /\ InitPipeline
    /\ InitMeta
    /\ NoCall

Next ==
    \/ ExportColumnize
    \/ ExportMetadata
    \/ ExportSlice
    \/ ExportEnd
    \/ ImportBegin
    \/ ImportSlice
    \/ ImportEnd
    \/ FastBegin
    \/ FastSlice
    \/ FastFinish

Spec == Init /\ [][Next]_vars

----------------------------------------------------------------------------
(* The readers on files that no writer of this repository produced: table  *)
(* slices whose column slices disagree on their row counts, IsInvalid       *)
(* arrays of another length than the values, and properties other than     *)
(* IsInvalid.                                                              *)

\* the cells stored in the crafted column slices of a column
CraftedCells(c) ==
    IF c = "a" THEN <<PyInt(0, 1), PyInt(0, 2)>> ELSE <<PyStr(<<97>>), PyStr(<<98>>)>>

CraftedType(c) == IF c = "a" THEN LONG ELSE STRING_TYPE

\* a column slice as _ColumnSlice.write lays it out: n values, an IsInvalid
\* bit array unless invalid is None, and the properties named in extra, put
\* before IsInvalid when first holds
CraftedColumnSlice(c, n, invalid, extra, first) ==
    LET others == [k \in 1..Len(extra) |-> write_array_list(LONG, <<PyInt(0, 7)>>)]
        own == IF invalid = None THEN <<>> ELSE <<"IsInvalid">>
        own_values == IF invalid = None THEN <<>> ELSE <<create_bit(invalid[1])>>
    IN  [values |-> write_array_list(CraftedType(c), SubSeq(CraftedCells(c), 1, n)),
         property_names |-> IF first THEN extra \o own ELSE own \o extra,
         property_values |-> IF first THEN others \o own_values ELSE own_values \o others]

\* the column slices of column "a": 0..2 values, no IsInvalid or one of 0..2
\* bits, and properties other than IsInvalid
CraftedA ==
    {CraftedColumnSlice("a", n, invalid, extra, first) :
        n \in 0..2,
        invalid \in {None} \cup {Some(b) : b \in SeqsUpTo(BOOLEAN, 2)},
        extra \in {<<>>, <<"ErrorCode">>, <<"HasReplacedValue", "Other">>},
        first \in BOOLEAN}

\* a column slice of column "a" whose plain array declares -1 elements and
\* holds no bytes
CraftedNegative ==
    {[values |-> [write_array_list(LONG, <<>>) EXCEPT !.count = -1],
      property_names |-> <<>>, property_values |-> <<>>]}

\* the column slices of column "b"
CraftedB ==
    {CraftedColumnSlice("b", n, invalid, <<>>, FALSE) :
        n \in 1..2, invalid \in {None, Some(<<TRUE>>)}}

\* a second table slice of one row, as a writer lays it out
PlainSlice(names) ==
    [k \in 1..Len(names) |->
        CraftedColumnSlice(names[k], 1, None, <<>>, FALSE)]

\* the files handed to the readers
CraftedFiles ==
    {[header |-> <<1, 0>>,
      tmeta |-> LET built == export_metadata([names |-> names],
                                             [c \in Range(names) |-> CraftedType(c)])
                IN TableMetadata_write(built.table_metadata, built.column_metadata).out,
      slices |-> <<[k \in 1..Len(names) |-> IF names[k] = "a" THEN a ELSE b]>>
                 \o (IF more THEN <<PlainSlice(names)>> ELSE <<>>),
      end |-> TRUE,
      sections |-> <<section_write(FILEHEADER), section_write(TABLEMETADATA)>>
                   \o table_slice_sections(Len(names))
                   \o (IF more THEN table_slice_sections(Len(names)) ELSE <<>>)
                   \o <<section_write(TABLEEND)>>] :
        names \in {<<"a">>, <<"a", "b">>}, a \in CraftedA \cup CraftedNegative,
        b \in CraftedB,
        more \in BOOLEAN}

\* spotfire.sbdf.import_data or spotfire.fast_sbdf.import_data is about to
\* open a crafted file
InitRead ==
    /\ NoTemp
    /\ obj = Table("dict", <<"a">>, <<>>, <<>>, "")
    /\ pc \in {"exported", "imported"}
    /\ err = ""
    /\ column_types = EmptyDict
    /\ tmeta = None
    /\ row_count = 0
    /\ row_offset = 0
    /\ dataslices = <<>>
    /\ file \in CraftedFiles
    /\ column_names = <<>>
    /\ pd_data = EmptyDict
    /\ read_pos = 0
    /\ table_slices = <<>>
    /\ table_slice_nulls = <<>>
    /\ rows_per_slice = <<>>
    /\ pandas_data = EmptyDict
    /\ InitMeta
    /\ NoCall

NextRead ==
    \/ ImportBegin
    \/ ImportSlice
    \/ ImportEnd
    \/ FastBegin
    \/ FastSlice
    \/ FastFinish

SpecRead == InitRead /\ [][NextRead]_vars

----------------------------------------------------------------------------
(* Properties of the export / import pipeline. *)

\* the states in which export_data has returned
Exported == {"exported", "import", "imported", "fast", "fast_done"}

\* ceil(n / d)
CeilDiv(n, d) == (n + d - 1) \div d

\* bit j (from 1) of a packed bit array, most significant bit of a byte first
BitAt(bytes, j) == (bytes[((j - 1) \div 8) + 1] \div (2 ^ (7 - ((j - 1) % 8)))) % 2 = 1

\* the rows the table slices before slice i hold in column k
RowsBefore(i, k) == Sum([h \in 1..(i - 1) |-> file.slices[h][k].values.count])

\* whether a column slice carries the IsInvalid property
HasIsInvalid(cslice) == "IsInvalid" \in Range(cslice.property_names)

\* the IsInvalid value array of a column slice that carries one
IsInvalidOf(cslice) == cslice.property_values[IndexOf(cslice.property_names, "IsInvalid")]

\* C1: import_data applied to the file export_data(T) wrote returns T's column
\* names in T's order, T's row count and, in every cell, T's value, with
\* exactly T's missing cells missing.
C1_RoundTrip ==
    pc = "imported" =>
        /\ column_names = obj.names
        /\ \A c \in Range(obj.names) :
              /\ Len(pd_data[c]) = Len(obj.columns[c])
              /\ pd_data[c] = obj.columns[c]

\* C2: _export_table_slices emits ceil(N/S) table slices, each but the last
\* of exactly S rows in every column and the last of the remaining rows, and
\* the slices in emission order hold rows 0..N-1 once each; for lists and for
\* DataFrames.
C2_SlicePartition ==
    pc = "exported" =>
        LET count == Len(file.slices)
        IN  /\ count = CeilDiv(row_count, max_rows_per_slice)
            /\ \A i \in 1..count : \A k \in 1..Len(obj.names) :
                  file.slices[i][k].values.count =
                      IF i < count THEN max_rows_per_slice
                      ELSE row_count - max_rows_per_slice * (count - 1)
            /\ \A c \in Range(obj.names) :
                  Flatten([i \in 1..count |-> dataslices[i][c]]) = obj.columns[c]

\* C3: a column slice the writer emits carries IsInvalid if and only if a cell
\* of the column in the slice is missing; the property is then a bit array as
\* long as the slice's values whose bit i is set exactly when cell i is missing.
C3_IsInvalidExact ==
    \A i \in 1..Len(file.slices) : \A k \in 1..Len(obj.names) :
        LET cslice == file.slices[i][k]
            cells == dataslices[i][obj.names[k]]
        IN  /\ cslice.values.count = Len(cells)
            /\ HasIsInvalid(cslice) <=> \E j \in 1..Len(cells) : isnull(cells[j])
            /\ Len(cslice.property_names) <= 1
            /\ HasIsInvalid(cslice) =>
                  /\ IsInvalidOf(cslice).encoding = BIT_ARRAY
                  /\ IsInvalidOf(cslice).count = cslice.values.count
                  /\ Len(IsInvalidOf(cslice).bytes) = CeilDiv(Len(cells), 8)
                  /\ \A j \in 1..Len(cells) :
                        BitAt(IsInvalidOf(cslice).bytes, j) <=> isnull(cells[j])

\* C3 happens: a written column slice with a missing and a present cell, next
\* to a written column slice without a missing cell
C3_Witness ==
    /\ pc = "exported"
    /\ \E i \in 1..Len(file.slices) : \E k \in 1..Len(obj.names) :
          /\ HasIsInvalid(file.slices[i][k])
          /\ \E j \in 1..Len(dataslices[i][obj.names[k]]) :
                ~isnull(dataslices[i][obj.names[k]][j])
    /\ \E i \in 1..Len(file.slices) : \E k \in 1..Len(obj.names) :
          /\ ~HasIsInvalid(file.slices[i][k])
          /\ file.slices[i][k].values.count > 0

\* C4: the reader surfaces a cell as missing if and only if its column slice
\* carries IsInvalid with the row's bit set; a slice without IsInvalid has no
\* missing cell, and a stored value whose bit is clear is returned as a value,
\* the type's missing-value sentinel included.
C4_MissingIffBitSet ==
    pc \in {"import", "imported"} =>
        \A i \in 1..read_pos : \A k \in 1..Len(column_names) :
            LET cslice == file.slices[i][k]
                column == pd_data[column_names[k]]
                stored == read_array(cslice.values)
            IN  \A j \in 1..cslice.values.count :
                    LET cell == column[RowsBefore(i, k) + j]
                        bit == HasIsInvalid(cslice) /\ BitAt(IsInvalidOf(cslice).bytes, j)
                    IN  /\ isnull(cell) <=> bit
                        /\ ~bit => cell = Some(stored[j])

\* C4 happens: a slice with IsInvalid stores the sentinel under a clear bit and
\* under a set bit, and the reader has returned the first as a value
C4_Witness ==
    /\ pc = "imported"
    /\ \E i \in 1..read_pos : \E k \in 1..Len(column_names) :
          LET cslice == file.slices[i][k]
              column == pd_data[column_names[k]]
              stored == read_array(cslice.values)
          IN  /\ HasIsInvalid(cslice)
              /\ \E j \in 1..cslice.values.count :
                    /\ ~BitAt(IsInvalidOf(cslice).bytes, j)
                    /\ stored[j] = missing_value(cslice.values.valuetype)
                    /\ column[RowsBefore(i, k) + j] = Some(stored[j])
              /\ \E j \in 1..cslice.values.count :
                    /\ BitAt(IsInvalidOf(cslice).bytes, j)
                    /\ column[RowsBefore(i, k) + j] = None

\* a cell of the frame a reader returns is missing: None, or NaN
IsMissingCell(cell) == cell = None \/ cell = Some(NaN)

\* two values are the same number or string, whatever their numeric class
ValueEq(x, y) == x.hi = y.hi /\ x.lo = y.lo /\ x.s = y.s

\* the missing mask fast_sbdf reads for one column slice
SliceMask(cslice) ==
    IF HasIsInvalid(cslice)
    THEN unpack_bit_array(next_bytes_as_packed_array(IsInvalidOf(cslice)))
    ELSE [j \in 1..cslice.values.count |-> FALSE]

\* the cells fast_sbdf's result holds at the rows of one slice equal the
\* slice's own array, masked: the same values at the same positions
SameCells(cells, values, mask) ==
    /\ Len(cells) = Len(values)
    /\ \A j \in 1..Len(cells) :
          IF mask[j] THEN IsMissingCell(cells[j])
          ELSE ~IsMissingCell(cells[j]) /\ ValueEq(cells[j][1], values[j])

\* C5: for a file of k table slices each column a reader returns is the
\* concatenation of the column's k per-slice arrays in file order: row j of
\* slice i is at index (rows of the slices before i) + j; for
\* spotfire.sbdf.import_data and for spotfire.fast_sbdf.import_data.
C5_ConcatenationOrder ==
    /\ pc \in {"imported", "fast", "fast_done"} =>
          \A k \in 1..Len(column_names) :
              /\ Len(pd_data[column_names[k]]) = RowsBefore(Len(file.slices) + 1, k)
              /\ \A i \in 1..Len(file.slices) :
                    SubSeq(pd_data[column_names[k]], RowsBefore(i, k) + 1,
                           RowsBefore(i + 1, k))
                        = import_column_slice(file.slices[i][k])
    /\ pc = "fast_done" =>
          \A k \in 1..Len(column_names) :
              /\ Len(pandas_data[column_names[k]]) = RowsBefore(Len(file.slices) + 1, k)
              /\ \A i \in 1..Len(file.slices) :
                    SameCells(SubSeq(pandas_data[column_names[k]], RowsBefore(i, k) + 1,
                                     RowsBefore(i + 1, k)),
                              unpack_packed_array(
                                  next_bytes_as_packed_array(file.slices[i][k].values)),
                              SliceMask(file.slices[i][k]))

\* C5 happens: both readers have read a file of several table slices whose
\* first two slices differ in both columns, one of them with missing cells
C5_Witness ==
    /\ pc = "fast_done"
    /\ Len(file.slices) >= 2
    /\ Len(column_names) = 2
    /\ \A k \in 1..2 : file.slices[1][k].values.bytes # file.slices[2][k].values.bytes
    /\ \E i \in 1..Len(file.slices) : \E k \in 1..2 : HasIsInvalid(file.slices[i][k])
    /\ \A c \in Range(column_names) : Len(pd_data[c]) = Len(pandas_data[c])

\* the DataType written for column k of the table
WrittenType(k) == get_type(TableMetadata_read(file.tmeta, 1).column_metadata[k])

\* a cell of the column lies outside the signed 32-bit range
HasBigCell(c) ==
    \E r \in 1..Len(obj.columns[c]) :
        ~isnull(obj.columns[c][r]) /\ ~FitsInt32(obj.columns[c][r][1])

\* C10: a column inferred or declared INT with a cell outside the signed
\* 32-bit range is exported, with DataType LONG and 8 bytes a cell; a column
\* declared INT whose cells all fit in 32 bits is written as INT.
C10_IntegerPromotion ==
    \A k \in 1..Len(obj.names) :
        LET c == obj.names[k]
            declared == obj.attrs[c] = "Integer"
            inferred == c \in DOMAIN column_types /\ column_types[c] = INT
        IN  /\ ((declared \/ inferred) /\ HasBigCell(c)) =>
                  /\ pc # "failed"
                  /\ pc \in Exported =>
                        /\ WrittenType(k) = LONG
                        /\ \A i \in 1..Len(file.slices) :
                              /\ file.slices[i][k].values.valuetype = LONG
                              /\ Len(file.slices[i][k].values.bytes) =
                                     8 * file.slices[i][k].values.count
            /\ (declared /\ ~HasBigCell(c) /\ pc \in Exported) =>
                  /\ WrittenType(k) = INT
                  /\ \A i \in 1..Len(file.slices) :
                        file.slices[i][k].values.valuetype = INT

\* every cell of column c is missing, or the column is empty
AllMissing(c) == \A r \in 1..Len(obj.columns[c]) : isnull(obj.columns[c][r])

\* the type of column c has to be inferred from its cells: a list, or a
\* DataFrame column of dtype object
InferredFromCells(c) == obj.kind = "dict" \/ obj.dtype[c] = "object"

\* export_data has raised "all values are missing" and has written nothing
FailedAllMissing ==
    /\ pc = "failed"
    /\ err = "all values are missing"
    /\ file = [header |-> <<>>, tmeta |-> None, slices |-> <<>>, end |-> FALSE,
               sections |-> <<>>]

\* C12 as stated: when every cell of a column is missing, or the column is
\* empty, and no type is declared for it, inference fails with "all values are
\* missing" and export_data raises SBDFError instead of writing the column.
C12_AllMissingAlwaysFails ==
    \A c \in Range(obj.names) :
        (AllMissing(c) /\ obj.attrs[c] = "" /\ pc # "start") => FailedAllMissing

\* C12, amended: when every cell of a column is missing, or the column is
\* empty, no type is declared for it and its type has to be inferred from its
\* cells (a list, or a DataFrame column of dtype object), inference fails with
\* "all values are missing" and export_data raises SBDFError before it writes
\* anything.
C12_AllMissingFails ==
    \A c \in Range(obj.names) :
        (AllMissing(c) /\ obj.attrs[c] = "" /\ InferredFromCells(c) /\ pc # "start") =>
            FailedAllMissing

\* C12: the export of a DataFrame with a column of two missing cells has failed
C12_Witness ==
    /\ obj.kind = "frame"
    /\ \E c \in Range(obj.names) :
           AllMissing(c) /\ Len(obj.columns[c]) >= 2 /\ obj.attrs[c] = ""
    /\ FailedAllMissing

\* whether the table handed to export_data has no rows
ZeroRows == \A c \in Range(obj.names) : Len(obj.columns[c]) = 0

\* export_data has not returned or raised yet
Exporting == pc \in {"start", "metadata", "slices"}

\* the file holds the header, the table metadata and the end marker and no
\* table slice
HeaderMetadataEnd ==
    /\ file.header = <<1, 0>>
    /\ file.tmeta # None
    /\ file.slices = <<>>
    /\ file.end

----------------------------------------------------------------------------
(* The metadata maps, driven call by call.  heap holds the _Metadata       *)
(* objects by object id: the maps made by _Metadata() and, after a read,   *)
(* the maps _TableMetadata.read made.  A _TableMetadata is                 *)
(* [table_metadata, column_metadata] of object ids: it refers to the maps  *)
(* it was given, so a change of a map shows through it.  last is the last  *)
(* call: its name, the map it was made on and the message of the SBDFError *)
(* it raised ("" if none).                                                 *)

\* the names given to metadata entries
MetaNames == {"K", "L"}

\* the values given to metadata entries
IntValue == SbdfObject(0, INT, <<PyInt(0, 7)>>)
StrValue == SbdfObject(0, STRING_TYPE, <<PyStr(<<118>>)>>)
MetaValues == {IntValue, StrValue}

\* the defaults given to metadata entries: none, and two distinct objects
\* that hold the same INT
MetaDefaults ==
    {None, Some(SbdfObject(1, INT, <<PyInt(0, 5)>>)), Some(SbdfObject(2, INT, <<PyInt(0, 5)>>))}

\* the first object id free for the objects a read creates
FreshOid == Cardinality(MetaDefaults)

\* the ids of the maps a _TableMetadata refers to
MapsOf(t) == IF t = None THEN {} ELSE {t[1].table_metadata} \cup Range(t[1].column_metadata)

\* the maps a _TableMetadata refers to
Resolve(t) ==
    [table_metadata |-> heap[t.table_metadata],
     column_metadata |-> [c \in 1..Len(t.column_metadata) |-> heap[t.column_metadata[c]]]]

\* metadata.add(name, value, default_value) on map m
MetaAdd(m, name, value, default_value) ==
    /\ heap' = [heap EXCEPT ![m] = md_add(heap[m], name, value, default_value).md]
    /\ last' = [op |-> "add", m |-> m,
                err |-> md_add(heap[m], name, value, default_value).err]
    /\ UNCHANGED <<tm, tm_file, tm_read, obj, pipeline_vars, fn_vars, temp_vars>>

\* metadata.remove(name) on map m
MetaRemove(m, name) ==
    /\ heap' = [heap EXCEPT ![m] = md_remove(heap[m], name).md]
    /\ last' = [op |-> "remove", m |-> m, err |-> md_remove(heap[m], name).err]
    /\ UNCHANGED <<tm, tm_file, tm_read, obj, pipeline_vars, fn_vars, temp_vars>>

\* _TableMetadata(m): the table-level map is kept and sealed
NewTableMetadata(m) ==
    /\ tm = None
    /\ tm' = Some([table_metadata |-> m, column_metadata |-> <<>>])
    /\ heap' = [heap EXCEPT ![m] = set_immutable(heap[m])]
    /\ last' = [op |-> "init", m |-> m, err |-> ""]
    /\ UNCHANGED <<tm_file, tm_read, obj, pipeline_vars, fn_vars, temp_vars>>

\* tmeta.add(m): the column map is appended
TableAdd(m) ==
    /\ tm # None
    /\ tm' = Some([tm[1] EXCEPT !.column_metadata = Append(@, m)])
    /\ last' = [op |-> "tm_add", m |-> m, err |-> ""]
    /\ UNCHANGED <<heap, tm_file, tm_read, obj, pipeline_vars, fn_vars, temp_vars>>

\* tmeta.write(file), to a new file
TableWrite ==
    /\ tm # None
    /\ tm_file = None
    /\ LET res == TableMetadata_write(Resolve(tm[1]).table_metadata,
                                      Resolve(tm[1]).column_metadata)
       IN  /\ last' = [op |-> "write", m |-> 0, err |-> res.err]
           /\ tm_file' = IF res.err = "" THEN Some(res.out) ELSE None
    /\ UNCHANGED <<heap, tm, tm_read, obj, pipeline_vars, fn_vars, temp_vars>>

\* _TableMetadata.read(file), of the file written: its maps are new objects
TableRead ==
    /\ tm_file # None
    /\ tm_read = None
    /\ LET res == TableMetadata_read(tm_file[1], FreshOid)
       IN  /\ last' = [op |-> "read", m |-> 0, err |-> res.err]
           /\ heap' = heap \o <<res.table_metadata>> \o res.column_metadata
           /\ tm_read' = Some([table_metadata |-> Len(heap) + 1,
                               column_metadata |-> [c \in 1..Len(res.column_metadata) |->
                                                       Len(heap) + 1 + c]])
    /\ UNCHANGED <<tm, tm_file, obj, pipeline_vars, fn_vars, temp_vars>>

\* the pipeline is idle while the metadata maps are driven
IdlePipeline ==
    /\ NoTemp
    /\ obj = Table("dict", <<"a">>, <<>>, <<>>, "")
    /\ InitPipeline
    /\ NoCall

----------------------------------------------------------------------------
(* SpecMd: one map; add with every value and default, remove, and the      *)
(* sealing of the map by the _TableMetadata constructor.                   *)

InitMd ==
    /\ IdlePipeline
    /\ heap = <<EmptyMetadata>>
    /\ tm = None
    /\ tm_file = None
    /\ tm_read = None
    /\ last = [op |-> "", m |-> 0, err |-> ""]

NextMd ==
    \/ \E m \in DOMAIN heap : \E name \in MetaNames : \E value \in MetaValues :
           \E default_value \in MetaDefaults : MetaAdd(m, name, value, default_value)
    \/ \E m \in DOMAIN heap : \E name \in MetaNames : MetaRemove(m, name)
    \/ \E m \in DOMAIN heap : NewTableMetadata(m)

SpecMd == InitMd /\ [][NextMd]_vars

----------------------------------------------------------------------------
(* SpecMap: two maps are filled, made the table-level map and a column map *)
(* of a _TableMetadata and written; the file is read back; calls go on,    *)
(* before the write on the two maps and after the read on the maps read.   *)

\* the maps the calls are made on
Live(m) ==
    IF tm_read = None THEN tm_file = None ELSE m \in MapsOf(tm_read)

InitMap ==
    /\ IdlePipeline
    /\ heap = <<EmptyMetadata, EmptyMetadata>>
    /\ tm = None
    /\ tm_file = None
    /\ tm_read = None
    /\ last = [op |-> "", m |-> 0, err |-> ""]

NextMap ==
    \/ \E m \in DOMAIN heap : \E name \in MetaNames :
           Live(m) /\ MetaAdd(m, name, IntValue, None)
    \/ \E m \in DOMAIN heap : \E name \in MetaNames : Live(m) /\ MetaRemove(m, name)
    \/ \E m \in DOMAIN heap : Live(m) /\ NewTableMetadata(m)
    \/ \E m \in DOMAIN heap : Live(m) /\ m \notin MapsOf(tm) /\ TableAdd(m)
    \/ TableWrite
    \/ TableRead

SpecMap == InitMap /\ [][NextMap]_vars

----------------------------------------------------------------------------
(* SpecTable: a _TableMetadata over a table-level map and one map per      *)
(* column, each filled by add calls, is written and the file read back.    *)

\* the maps that n add calls on a new map can make
RECURSIVE MapsUpTo(_)
MapsUpTo(n) ==
    IF n = 0 THEN {EmptyMetadata}
    ELSE MapsUpTo(n - 1) \cup
         {md_add(md, name, value, default_value).md :
              md \in MapsUpTo(n - 1), name \in MetaNames, value \in MetaValues,
              default_value \in MetaDefaults}

InitTable ==
    /\ IdlePipeline
    /\ \E n \in 1..MaxColumns :
           /\ \E table \in MapsUpTo(1) : \E columns \in [1..n -> MapsUpTo(MaxEntries)] :
                  heap = <<set_immutable(table)>> \o columns
           /\ tm = Some([table_metadata |-> 1, column_metadata |-> [c \in 1..n |-> c + 1]])
    /\ tm_file = None
    /\ tm_read = None
    /\ last = [op |-> "tm_add", m |-> Len(heap), err |-> ""]

NextTable ==
    \/ TableWrite
    \/ TableRead

SpecTable == InitTable /\ [][NextTable]_vars

----------------------------------------------------------------------------
(* The claims on the metadata maps. *)

\* two _SbdfObject of the same value type and data
SameObject(x, y) == x.valuetype = y.valuetype /\ x.data = y.data

\* two optional _SbdfObject, both absent or the same by value
SameOptional(x, y) == IF x = None \/ y = None THEN x = y ELSE SameObject(x[1], y[1])

\* two maps with the same names in the same order and, entry by entry, the
\* same value, default value and value type
SameMap(a, b) ==
    /\ a.names = b.names
    /\ Len(a.values) = Len(b.values)
    /\ Len(a.default_values) = Len(b.default_values)
    /\ \A k \in 1..Len(a.values) : SameObject(a.values[k], b.values[k])
    /\ \A k \in 1..Len(a.default_values) :
           SameOptional(a.default_values[k], b.default_values[k])

\* C6: after _TableMetadata.write and then _TableMetadata.read of what was
\* written, the table-level map and every column's map have the names of the
\* written maps in the same insertion order, with the same value, default
\* value and value type for every entry.
C6_WriteReadPreserves ==
    (last.op = "read") =>
        /\ SameMap(Resolve(tm_read[1]).table_metadata, Resolve(tm[1]).table_metadata)
        /\ Len(tm_read[1].column_metadata) = Len(tm[1].column_metadata)
        /\ \A c \in 1..Len(tm[1].column_metadata) :
               SameMap(Resolve(tm_read[1]).column_metadata[c],
                       Resolve(tm[1]).column_metadata[c])

\* the maps incorporated into a table-metadata block: given to the
\* constructor or to _TableMetadata.add, or made by _TableMetadata.read
Incorporated == MapsOf(tm) \cup MapsOf(tm_read)

\* C7: every add or remove on a map that has been incorporated into a
\* table-metadata block fails with "the metadata is readonly and may not be
\* modified" and leaves the map's names, values and default values unchanged.
C7_IncorporatedMapsSealed ==
    [][\A m \in Incorporated :
           (last'.op \in {"add", "remove"} /\ last'.m = m) =>
               /\ last'.err = "the metadata is readonly and may not be modified"
               /\ heap'[m] = heap[m]]_vars

\* the names of every map are pairwise distinct and its three lists have the
\* same length
MapsWellFormed ==
    \A m \in DOMAIN heap :
        /\ \A j, k \in 1..Len(heap[m].names) : heap[m].names[j] = heap[m].names[k] => j = k
        /\ Len(heap[m].values) = Len(heap[m].names)
        /\ Len(heap[m].default_values) = Len(heap[m].names)

\* C8 as stated: after any add and remove calls the names of a map are
\* pairwise distinct and its names, values and default_values have equal
\* length, and every add of a name that is already present fails with "the
\* metadata with the given name already exists" and leaves the map unchanged.
C8_DuplicateAddAlwaysExists ==
    /\ []MapsWellFormed
    /\ [][\A m \in DOMAIN heap : \A name \in MetaNames : \A value \in MetaValues :
              \A default_value \in MetaDefaults :
                  (MetaAdd(m, name, value, default_value) /\ name \in Range(heap[m].names)) =>
                      /\ last'.err = "the metadata with the given name already exists"
                      /\ heap'[m] = heap[m]]_vars

\* C8, amended: the names of a map stay pairwise distinct and its three lists
\* of equal length; an add of a name that is already present fails and leaves
\* the map unchanged; the failure is "the metadata with the given name already
\* exists" when the map is modifiable and the value and the default value have
\* the same value type, "the metadata is readonly and may not be modified" when
\* the map is sealed, and otherwise "the valuetypes of the arguments must be
\* equal".
C8_DuplicateAddFails ==
    /\ []MapsWellFormed
    /\ [][\A m \in DOMAIN heap : \A name \in MetaNames : \A value \in MetaValues :
              \A default_value \in MetaDefaults :
                  (MetaAdd(m, name, value, default_value) /\ name \in Range(heap[m].names)) =>
                      /\ heap'[m] = heap[m]
                      /\ last'.err =
                             IF ~heap[m].modifiable
                             THEN "the metadata is readonly and may not be modified"
                             ELSE IF default_value # None
                                     /\ value.valuetype # default_value[1].valuetype
                             THEN "the valuetypes of the arguments must be equal"
                             ELSE "the metadata with the given name already exists"]_vars

\* C8: a map of two entries, on which the add of a present name has just failed
C8_Witness ==
    /\ last.op = "add"
    /\ last.err = "the metadata with the given name already exists"
    /\ Len(heap[last.m].names) = 2
    /\ heap[last.m].modifiable

\* some key occurs in two column maps with different value types or with
\* default values that differ by value
KeyConflict(column_metadata) ==
    \E c, d \in 1..Len(column_metadata) :
        \E j \in 1..Len(column_metadata[c].names) : \E k \in 1..Len(column_metadata[d].names) :
            /\ column_metadata[c].names[j] = column_metadata[d].names[k]
            /\ \/ column_metadata[c].values[j].valuetype # column_metadata[d].values[k].valuetype
               \/ ~SameOptional(column_metadata[c].default_values[j],
                                column_metadata[d].default_values[k])

\* the distinct keys of the column maps
DistinctKeys(column_metadata) ==
    UNION {Range(column_metadata[c].names) : c \in 1..Len(column_metadata)}

\* C9: _TableMetadata.write fails with "the metadata is incorrect" if and only
\* if some key occurs in two column maps with different value types or with
\* defaults that differ by value; otherwise it succeeds and writes exactly one
\* field descriptor per distinct key.
C9_WriteFailsIffKeyConflict ==
    (last.op = "write") =>
        LET column_metadata == Resolve(tm[1]).column_metadata
        IN  /\ (last.err = "the metadata is incorrect") <=> KeyConflict(column_metadata)
            /\ ~KeyConflict(column_metadata) =>
                   /\ last.err = ""
                   /\ tm_file # None
                   /\ Len(tm_file[1].fields) = Cardinality(DistinctKeys(column_metadata))
                   /\ {tm_file[1].fields[k].name : k \in 1..Len(tm_file[1].fields)}
                          = DistinctKeys(column_metadata)

----------------------------------------------------------------------------
(* SpecCodec: the functions of the codec, each called on its own.  call    *)
(* holds the function and its arguments, result what the call returned.    *)

PyDate(d) == [cls |-> "date", hi |-> 0, lo |-> d, s |-> <<>>]

PyDateTime(d) == [cls |-> "datetime", hi |-> 0, lo |-> d, s |-> <<>>]

\* the cells of the columns handed to infer_from_type
InferCells ==
    {None, Some(PyBool(TRUE)), Some(PyInt(0, 1)), Some(PyStr(<<97>>)),
     Some(PyDate(1)), Some(PyDateTime(1))}

InferCalls ==
    {[fn |-> "infer_from_type", values |-> v] : v \in SeqsUpTo(InferCells, MaxCells)}

\* _ValueTypeId.infer_from_type(values, value_description)
CallInferFromType ==
    /\ call.fn = "infer_from_type"
    /\ result = <<>>
    /\ result' = <<infer_from_type(call.values)>>
    /\ UNCHANGED <<call, pipeline_vars, meta_vars, temp_vars>>

\* sbdf.spotfire_typename_to_valuetype_id: the value type of a Spotfire type
\* name, UNKNOWN (a false value) for a name that is not one
spotfire_typename_to_valuetype_id(spotfire_type) ==
    CASE spotfire_type = "Boolean" -> BOOL
      [] spotfire_type = "Integer" -> INT
      [] spotfire_type = "LongInteger" -> LONG
      [] spotfire_type = "SingleReal" -> FLOAT
      [] spotfire_type = "Real" -> DOUBLE
      [] spotfire_type = "DateTime" -> DATETIME
      [] spotfire_type = "Date" -> DATE
      [] spotfire_type = "Time" -> TIME
      [] spotfire_type = "TimeSpan" -> TIMESPAN
      [] spotfire_type = "String" -> STRING_TYPE
      [] spotfire_type = "Binary" -> BINARY
      [] spotfire_type = "Currency" -> DECIMAL
      [] OTHER -> UNKNOWN

\* set_spotfire_types that gives up at the first entry it warns about
RECURSIVE set_spotfire_types_stop(_, _)
set_spotfire_types_stop(df, mapping) ==
    IF mapping = <<>> THEN df
    ELSE LET col == Head(mapping).col
             spotfire_type == Head(mapping).type
         IN  IF col \notin DOMAIN df.attrs
             THEN [df EXCEPT !.warnings = Append(@, "not found in data")]
             ELSE IF spotfire_typename_to_valuetype_id(spotfire_type) = UNKNOWN
             THEN [df EXCEPT !.warnings = Append(@, "not recognized")]
             ELSE set_spotfire_types_stop([df EXCEPT !.attrs[col] = spotfire_type],
                                          Tail(mapping))

\* set_spotfire_types on a DataFrame: df is [attrs, warnings], the declared
\* type of each column ("" if none) and the warnings issued so far;
\* mapping is column_types, as its items in the dict's order
RECURSIVE set_spotfire_types(_, _)
set_spotfire_types(df, mapping) ==
    IF mapping = <<>> THEN df
    ELSE LET col == Head(mapping).col
             spotfire_type == Head(mapping).type
         IN  IF col \notin DOMAIN df.attrs
             THEN set_spotfire_types([df EXCEPT !.warnings = Append(@, "not found in data")],
                                     Tail(mapping))
             ELSE IF spotfire_typename_to_valuetype_id(spotfire_type) = UNKNOWN
             THEN set_spotfire_types([df EXCEPT !.warnings = Append(@, "not recognized")],
                                     Tail(mapping))
             ELSE set_spotfire_types([df EXCEPT !.attrs[col] = spotfire_type],
                                     Tail(mapping))

\* the mappings handed to set_spotfire_types: items with distinct keys
TypeMappings ==
    {m \in SeqsUpTo([col : {"a", "b", "z"}, type : {"Integer", "String", "BadType"}], MaxCells) :
        \A j, k \in 1..Len(m) : m[j].col = m[k].col => j = k}

SetTypesCalls ==
    {[fn |-> "set_spotfire_types", attrs |-> attrs, column_types |-> m] :
        attrs \in [{"a", "b"} -> {"", "Integer"}], m \in TypeMappings}

\* set_spotfire_types(dataframe, column_types)
CallSetSpotfireTypes ==
    /\ call.fn = "set_spotfire_types"
    /\ result = <<>>
    /\ result' = <<set_spotfire_types([attrs |-> call.attrs, warnings |-> <<>>],
                                      call.column_types)>>
    /\ UNCHANGED <<call, pipeline_vars, meta_vars, temp_vars>>

\* datetime.timedelta, as whole milliseconds
PyTimeDelta(ms) == [cls |-> "timedelta", hi |-> 0, lo |-> ms, s |-> <<>>]

\* decimal.Decimal: as_tuple() is (sign, digits, exponent)
PyDecimal(sign, digits, exponent) ==
    [cls |-> "Decimal", hi |-> exponent, lo |-> sign, s |-> digits]

DECIMAL_EXPONENT_BIAS == 12320

\* _ValueType._to_bytes_datetime: milliseconds after 0001-01-01 as "<q"; the
\* subtraction raises TypeError on anything that is not a datetime
to_bytes_datetime(v) ==
    IF v.cls = "datetime" THEN [exc |-> "", data |-> to_bytes_long(PyInt(0, v.lo))]
    ELSE [exc |-> "TypeError", data |-> <<>>]

\* _ValueType._to_bytes_date: the days after 0001-01-01 as milliseconds
\* (86400000 = 1318 * 2^16 + 23552); a datetime minus a date raises TypeError
to_bytes_date(v) ==
    IF v.cls = "date"
    THEN LET low == v.lo * 23552
         IN [exc |-> "",
             data |-> to_bytes_long(PyInt(v.lo * 1318 + low \div 65536, low % 65536))]
    ELSE [exc |-> "TypeError", data |-> <<>>]

\* _ValueType._to_bytes_timespan: the division by a timedelta raises TypeError
\* on anything that is not a timedelta
to_bytes_timespan(v) ==
    IF v.cls = "timedelta" THEN [exc |-> "", data |-> to_bytes_long(PyInt(0, v.lo))]
    ELSE [exc |-> "TypeError", data |-> <<>>]

\* coefficient * 10 + i, on little-endian base-256 numerals without leading zeros
RECURSIVE MulAdd10(_, _)
MulAdd10(coefficient, i) ==
    IF coefficient = <<>> THEN (IF i = 0 THEN <<>> ELSE <<i>>)
    ELSE LET t == Head(coefficient) * 10 + i
         IN <<t % 256>> \o MulAdd10(Tail(coefficient), t \div 256)

\* the loop of _to_bytes_decimal that combines the digits of the coefficient
RECURSIVE combine_digits(_)
combine_digits(digits) ==
    IF digits = <<>> THEN <<>>
    ELSE MulAdd10(combine_digits(SubSeq(digits, 1, Len(digits) - 1)), digits[Len(digits)])

\* _ValueType._to_bytes_decimal: 'uintle:16' of the biased exponent, of which
\* bits [2:9] and [9:16] are kept, then 'uintle:96,pad:17,bits:7,bool,bits:7';
\* bitstring raises CreationError for a number that does not fit its field
to_bytes_decimal(v) ==
    IF v.cls # "Decimal" THEN [exc |-> "AttributeError", data |-> <<>>]
    ELSE LET biased_exponent == v.hi + DECIMAL_EXPONENT_BIAS
             byte0 == biased_exponent % 256
             byte1 == biased_exponent \div 256
             biased_exponent_bits_high == (byte0 % 64) * 2 + byte1 \div 128
             biased_exponent_bits_low == byte1 % 128
             coefficient == combine_digits(v.s)
         IN IF biased_exponent < 0 \/ biased_exponent >= 65536 \/ Len(coefficient) > 12
            THEN [exc |-> "CreationError", data |-> <<>>]
            ELSE [exc |-> "",
                  data |-> coefficient \o [k \in 1..(12 - Len(coefficient)) |-> 0]
                           \o <<0, 0, biased_exponent_bits_high,
                                v.lo * 128 + biased_exponent_bits_low>>]

\* quotient and remainder by 10 of a little-endian base-256 numeral
RECURSIVE DivMod10(_)
DivMod10(coefficient) ==
    IF coefficient = <<>> THEN [q |-> <<>>, r |-> 0]
    ELSE LET upper == DivMod10(Tail(coefficient))
             cur == upper.r * 256 + Head(coefficient)
         IN [q |-> <<cur \div 10>> \o upper.q, r |-> cur % 10]

\* the loop of _to_python_decimal that breaks the coefficient up into digits
RECURSIVE break_digits(_)
break_digits(coefficient) ==
    IF \A k \in 1..Len(coefficient) : coefficient[k] = 0 THEN <<>>
    ELSE LET d == DivMod10(coefficient) IN Append(break_digits(d.q), d.r)

\* _ValueType._to_python_decimal: unpack 'uintle:96,pad:17,bits:7,bool,bits:7',
\* put '0b00' before the two exponent fields and read them as 'uintle';
\* decimal.Decimal stores an empty digit tuple as (0,)
to_python_decimal(data) ==
    LET biased_exponent_bits_high == data[15] % 128
        sign_bit == data[16] \div 128
        biased_exponent_bits_low == data[16] % 128
        uintle == biased_exponent_bits_high \div 2
                  + 256 * ((biased_exponent_bits_high % 2) * 128 + biased_exponent_bits_low)
        digits == break_digits(SubSeq(data, 1, 12))
    IN PyDecimal(sign_bit, IF digits = <<>> THEN <<0>> ELSE digits,
                 uintle - DECIMAL_EXPONENT_BIAS)

\* the body of the try statement of _ValueType.to_bytes
to_bytes_try(type_id, v) ==
    CASE type_id \in {INT, LONG} ->
            IF v.cls \in {"int", "bool"} /\ can_encode(type_id, v)
            THEN [exc |-> "", data |-> to_bytes(type_id, v)]
            ELSE [exc |-> "struct.error", data |-> <<>>]
      [] type_id = DATETIME -> to_bytes_datetime(v)
      [] type_id = DATE -> to_bytes_date(v)
      [] type_id = TIMESPAN -> to_bytes_timespan(v)
      [] type_id = STRING_TYPE ->
            IF v.cls # "str" THEN [exc |-> "AttributeError", data |-> <<>>]
            ELSE IF \E k \in 1..Len(v.s) : v.s[k] \in 55296..57343
            THEN [exc |-> "UnicodeEncodeError", data |-> <<>>]
            ELSE [exc |-> "", data |-> to_bytes(type_id, v)]
      [] type_id = BINARY -> [exc |-> "", data |-> v]
      [] type_id = DECIMAL -> to_bytes_decimal(v)

\* _ValueType(type_id).to_bytes(obj) with its except clause: struct.error,
\* bitstring.CreationError and UnicodeError become SBDFError
ValueType_to_bytes(type_id, v) ==
    LET r == to_bytes_try(type_id, v)
    IN IF r.exc \in {"struct.error", "CreationError", "UnicodeEncodeError"}
       THEN [exc |-> "SBDFError", data |-> <<>>]
       ELSE r

\* 2^96 - 1 and 2^96, digit by digit
MaxCoefficientDigits ==
    <<7,9,2,2,8,1,6,2,5,1,4,2,6,4,3,3,7,5,9,3,5,4,3,9,5,0,3,3,5>>

OverCoefficientDigits ==
    <<7,9,2,2,8,1,6,2,5,1,4,2,6,4,3,3,7,5,9,3,5,4,3,9,5,0,3,3,6>>

\* the decimals handed to the encoder: the coefficients 0, 1, 14381565,
\* 2^96 - 1 and 2^96, and exponents around every edge of the exponent fields
Decimals ==
    {PyDecimal(sign, digits, exponent) :
        sign \in {0, 1},
        digits \in {<<0>>, <<1>>, <<1,4,3,8,1,5,6,5>>,
                    MaxCoefficientDigits, OverCoefficientDigits},
        exponent \in {-12321, -12320, -33, -32, -4, 0, 31, 32, 40,
                      4063, 4064, 53215, 53216}}

ToBytesTypes == {INT, LONG, DATETIME, DATE, TIMESPAN, STRING_TYPE, BINARY, DECIMAL}

ToBytesObjects ==
    {PyInt(0, 1), BigInt, PyBool(TRUE), PyStr(<<97>>), PyStr(<<55296>>),
     PyBytes(<<1>>), PyDate(1), PyDateTime(1), PyTimeDelta(1)} \cup Decimals

ToBytesCalls ==
    {[fn |-> "to_bytes", type_id |-> t, obj |-> v] :
        t \in ToBytesTypes, v \in ToBytesObjects}

\* _ValueType(type_id).to_bytes(obj)
CallToBytes ==
    /\ call.fn = "to_bytes"
    /\ result = <<>>
    /\ result' = <<ValueType_to_bytes(call.type_id, call.obj)>>
    /\ UNCHANGED <<call, pipeline_vars, meta_vars, temp_vars>>

\* the integers handed to the 7-bit packing: every power of two below 2^31
\* with its two neighbours, and the largest integer of the model
PackedValues ==
    {v \in {2 ^ j + d : j \in 0..30, d \in {-1, 0, 1}} : v >= 0} \cup {2147483647}

PackedCalls == {[fn |-> "7bit_packed_int32", value |-> v] : v \in PackedValues}

\* _write_7bit_packed_int32(file, value) into an empty file, one more byte
\* after it, then _read_7bit_packed_int32(file) from the start; length is
\* _get_7bit_packed_length(value) as _SbdfObject._write_n adds it up
CallPackedInt32 ==
    /\ call.fn = "7bit_packed_int32"
    /\ result = <<>>
    /\ LET written == write_7bit_packed_int32(call.value)
           back == read_7bit_packed_int32(written \o <<255>>)
       IN result' = <<[written |-> written, value |-> back.value, used |-> back.used,
                       length |-> get_7bit_packed_length(call.value)]>>
    /\ UNCHANGED <<call, pipeline_vars, meta_vars, temp_vars>>

\* a sequence of booleans, and whether the padding bits of its stored bytes
\* are set before it is read back
BitArrayCalls ==
    {[fn |-> "bit_array", bits |-> b, pad |-> p] :
        b \in SeqsUpTo(BOOLEAN, MaxBits), p \in BOOLEAN}

\* the packed bytes with every bit after the first n set
SetPadding(n, bytes) ==
    [b \in 1..Len(bytes) |->
        IF b = Len(bytes) /\ n % 8 # 0 THEN bytes[b] + 2 ^ (8 - (n % 8)) - 1 ELSE bytes[b]]

\* _ValueArray(BIT_ARRAY, array).write(file), then _ValueArray.read(file) and
\* get_values() on the count and the stored bytes, which another byte follows
CallBitArray ==
    /\ call.fn = "bit_array"
    /\ result = <<>>
    /\ LET written == create_bit(call.bits)
           stored == IF call.pad THEN SetPadding(written.count, written.bytes)
                     ELSE written.bytes
           val == written.count
           packed_size == val \div 8 + (IF val % 8 # 0 THEN 1 ELSE 0)
           bits == SubSeq(stored \o <<170>>, 1, packed_size)
       IN result' = <<[written |-> written, stored |-> stored,
                       values |-> get_bit(val, bits)]>>
    /\ UNCHANGED <<call, pipeline_vars, meta_vars, temp_vars>>

\* max_rows_per_slice as _export_table_slices sets it
source_max_rows_per_slice == 50000

\* the rows of the slices the loop of _export_table_slices writes from
\* row_offset on: a list gives columns[colname][a:b], b - a rows; a frame
\* gives columns.loc[a:b, colname], which includes row b when there is one
RECURSIVE slice_rows_from(_, _, _, _)
slice_rows_from(kind, rows, offset, max_rows) ==
    IF offset < rows
    THEN LET slice_row_count == Min(max_rows, rows - offset)
         IN <<IF kind = "frame" THEN Min(rows - offset, slice_row_count + 1)
              ELSE slice_row_count>>
            \o slice_rows_from(kind, rows, offset + slice_row_count, max_rows)
    ELSE <<>>

\* _export_table_slices with slices of at most 10,000 rows
export_table_slices_10000(kind, rows) == slice_rows_from(kind, rows, 0, 10000)

\* _export_table_slices: the number of rows in each table slice written
export_table_slices(kind, rows) ==
    slice_rows_from(kind, rows, 0, source_max_rows_per_slice)

\* the row counts handed to _export_table_slices
SliceCalls ==
    {[fn |-> "export_table_slices", kind |-> k, row_count |-> n] :
        k \in {"dict", "frame"}, n \in {0, 1, 10000, 10001, 50000, 50001, 100001}}

\* _export_table_slices(columns, column_names, column_types, file, row_count, tmeta)
CallExportTableSlices ==
    /\ call.fn = "export_table_slices"
    /\ result = <<>>
    /\ result' = <<export_table_slices(call.kind, call.row_count)>>
    /\ UNCHANGED <<call, pipeline_vars, meta_vars, temp_vars>>

\* _ValueArrayEncoding.RUN_LENGTH and _ValueTypeId.INTERNAL_BYTE
RUN_LENGTH == 2
INTERNAL_BYTE == 254

\* _ValueArray.write: the bytes of a plain array or a bit array in the file
ValueArray_write(va) ==
    <<va.encoding, va.valuetype>> \o Int32Bytes(va.count)
    \o (IF va.encoding = PLAIN_ARRAY /\ is_array(va.valuetype)
        THEN Int32Bytes(va.byte_size) ELSE <<>>)
    \o va.bytes

\* the position behind n length-prefixed elements that start at position p
RECURSIVE elements_end(_, _, _)
elements_end(stream, p, n) ==
    IF n <= 0 THEN p
    ELSE LET length == read_7bit_packed_int32(SubSeq(stream, p + 1, Len(stream)))
         IN  elements_end(stream, p + length.used + length.value, n - 1)

\* _SbdfObject.read_array at position p (bytes consumed so far): [err, pos]
read_array_at(stream, p, valuetype) ==
    LET count == LE(SubSeq(stream, p + 1, p + 4))
    IN  IF is_array(valuetype)
        THEN [err |-> "", pos |-> elements_end(stream, p + 8, count)]
        ELSE IF get_packed_size(valuetype) < 0
        THEN [err |-> "unknown typeid", pos |-> p + 4]
        ELSE [err |-> "", pos |-> p + 4 + count * get_packed_size(valuetype)]

\* _SbdfObject.skip_array at position p: [err, pos]
skip_array(stream, p, valuetype) == [err |-> "NotImplementedError", pos |-> p]

\* packed_size of a bit array of val bits
bit_packed_size(val) == val \div 8 + (IF val % 8 # 0 THEN 1 ELSE 0)

\* _ValueArray.read on a stream that starts with a value array: [err, pos],
\* pos the position the stream is left at
ValueArray_read(stream) ==
    LET encoding == stream[1]
        valtype == stream[2]
    IN  IF encoding = PLAIN_ARRAY THEN read_array_at(stream, 2, valtype)
        ELSE IF encoding = RUN_LENGTH
        THEN LET obj1 == read_array_at(stream, 6, INTERNAL_BYTE)
             IN  IF obj1.err # "" THEN obj1 ELSE read_array_at(stream, obj1.pos, valtype)
        ELSE IF encoding = BIT_ARRAY
        THEN [err |-> "", pos |-> 6 + bit_packed_size(LE(SubSeq(stream, 3, 6)))]
        ELSE [err |-> "unknown valuearray encoding", pos |-> 2]

\* _ValueArray.skip on a stream that starts with a value array: [err, pos]
ValueArray_skip(stream) ==
    LET encoding == stream[1]
        valtype == stream[2]
    IN  IF encoding = PLAIN_ARRAY THEN skip_array(stream, 2, valtype)
        ELSE IF encoding = RUN_LENGTH
        THEN LET obj1 == skip_array(stream, 2, INTERNAL_BYTE)
             IN  IF obj1.err # "" THEN obj1 ELSE skip_array(stream, obj1.pos, valtype)
        ELSE IF encoding = BIT_ARRAY
        THEN [err |-> "", pos |-> 6 + bit_packed_size(LE(SubSeq(stream, 3, 6)))]
        ELSE [err |-> "unknown valuearray encoding", pos |-> 2]

\* a run-length array as the format lays it out: the row count, the run
\* lengths as an array of INTERNAL_BYTE, the run values as an array
RunLengthBytes(valuetype, runs, values) ==
    <<RUN_LENGTH, valuetype>> \o Int32Bytes(Sum(runs))
    \o Int32Bytes(Len(runs)) \o runs
    \o Int32Bytes(Len(values)) \o Flatten([k \in 1..Len(values) |-> to_bytes(valuetype, values[k])])

\* the value arrays of the three encodings, as bytes
ValueArrayBytes ==
    {ValueArray_write(write_array_list(LONG, data)) :
        data \in SeqsUpTo({PyInt(0, 1), PyInt(0, 2)}, 2)}
    \cup {ValueArray_write(write_array_list(STRING_TYPE, data)) :
        data \in SeqsUpTo({PyStr(<<>>), PyStr(<<97, 233>>)}, 2)}
    \cup {ValueArray_write(create_bit(bits)) : bits \in SeqsUpTo(BOOLEAN, MaxBits)}
    \cup {RunLengthBytes(LONG, <<2, 1>>, <<PyInt(0, 1), PyInt(0, 2)>>),
          RunLengthBytes(LONG, <<>>, <<>>)}

\* a value array in a stream, with or without bytes behind it
SkipCalls ==
    {[fn |-> "ValueArray_skip", array |-> bytes, stream |-> bytes \o more] :
        bytes \in ValueArrayBytes, more \in {<<>>, <<223, 91, 5>>}}

\* _ValueArray.read(file) and _ValueArray.skip(file), each on the stream from
\* its start
CallValueArraySkip ==
    /\ call.fn = "ValueArray_skip"
    /\ result = <<>>
    /\ result' = <<[read |-> ValueArray_read(call.stream),
                    skip |-> ValueArray_skip(call.stream)]>>
    /\ UNCHANGED <<call, pipeline_vars, meta_vars, temp_vars>>

\* the IsInvalid bits of a slice of n rows: none set, all set, the odd rows set
InvalidBits(n) ==
    {[j \in 1..n |-> FALSE], [j \in 1..n |-> TRUE], [j \in 1..n |-> j % 2 = 1]}

\* one table slice of a column as fast_sbdf meets it: its row count, its
\* IsInvalid bits if it has the property, and whether the padding bits of the
\* stored bytes are set
MaskSlices ==
    {[n |-> n, invalid |-> invalid, pad |-> pad] :
        n \in {0, 1, 8, MaxBits}, invalid \in {None}, pad \in {FALSE}}
    \cup UNION {{[n |-> n, invalid |-> Some(bits), pad |-> pad] :
                    bits \in InvalidBits(n), pad \in {FALSE, n % 8 # 0}} :
                n \in {0, 1, 8, MaxBits}}

MaskCalls ==
    {[fn |-> "missing_mask", slices |-> slices] : slices \in SeqsUpTo(MaskSlices, MaxSlices)}

\* the IsInvalid value array of a slice as it lies in the file
StoredInvalid(slice) ==
    LET written == create_bit(slice.invalid[1])
    IN  [written EXCEPT !.bytes = IF slice.pad THEN SetPadding(written.count, @) ELSE @]

\* the loop over the table slices, the concatenation of the missing masks of
\* column "a" and unpack_bit_array in fast_sbdf.import_data
CallMissingMask ==
    /\ call.fn = "missing_mask"
    /\ result = <<>>
    /\ LET nulls == [k \in 1..Len(call.slices) |->
               IF call.slices[k].invalid = None THEN EmptyDict
               ELSE [c \in {"a"} |->
                        next_bytes_as_packed_array(StoredInvalid(call.slices[k]))]]
           rows == [k \in 1..Len(call.slices) |-> call.slices[k].n]
       IN  result' = <<unpack_bit_array(packed_missing_mask(nulls, rows, "a"))>>
    /\ UNCHANGED <<call, pipeline_vars, meta_vars, temp_vars>>

\* the column metadata dicts handed to _export_column_metadata: up to
\* MaxEntries entries under distinct names
ColumnMetadataDicts ==
    {colmeta \in SeqsUpTo([name : MetaNames, value : MetaValues], MaxEntries) :
        \A j, k \in 1..Len(colmeta) : j # k => colmeta[j].name # colmeta[k].name}

ColumnMetadataCalls ==
    {[fn |-> "export_column_metadata", colmeta |-> colmeta, colname |-> c, data_type |-> t] :
        colmeta \in ColumnMetadataDicts, c \in {"a", "b"}, t \in {LONG, STRING_TYPE}}

\* _export_column_metadata for one column, tmeta.write and _TableMetadata.read:
\* the map as built and the map read back from the file
CallExportColumnMetadata ==
    /\ call.fn = "export_column_metadata"
    /\ result = <<>>
    /\ LET built == export_column_metadata(call.colmeta, NameStr(call.colname),
                                           call.data_type)
           written == TableMetadata_write(set_immutable(EmptyMetadata), <<built>>)
       IN  result' = <<[built |-> built,
                        read |-> TableMetadata_read(written.out, 1).column_metadata[1]]>>
    /\ UNCHANGED <<call, pipeline_vars, meta_vars, temp_vars>>

InitCodec ==
    /\ NoTemp
    /\ obj = Table("dict", <<"a">>, <<>>, <<>>, "")
    /\ InitPipeline
    /\ InitMeta
    /\ result = <<>>
    /\ \/ call \in InferCalls
       \/ call \in SetTypesCalls
       \/ call \in ToBytesCalls
       \/ call \in PackedCalls
       \/ call \in BitArrayCalls
       \/ call \in SliceCalls
       \/ call \in ColumnMetadataCalls
       \/ call \in SkipCalls
       \/ call \in MaskCalls

NextCodec ==
    \/ CallInferFromType
    \/ CallSetSpotfireTypes
    \/ CallToBytes
    \/ CallPackedInt32
    \/ CallBitArray
    \/ CallExportTableSlices
    \/ CallExportColumnMetadata
    \/ CallValueArraySkip
    \/ CallMissingMask

SpecCodec == InitCodec /\ [][NextCodec]_vars

----------------------------------------------------------------------------
(* The claims on the codec functions. *)

\* the classes of the cells of a column that are not missing
ClassesOf(values) == {values[k][1].cls : k \in {j \in 1..Len(values) : values[j] # None}}

\* C11: infer_from_type returns a value type only when all non-missing cells
\* have one and the same concrete type; when two non-missing cells differ in
\* their concrete type it fails with "types in ... do not match"; and the
\* outcome is the same for every ordering of the cells.
C11_InferOneConcreteType ==
    (call.fn = "infer_from_type" /\ result # <<>>) =>
        /\ result[1].err = "" => Cardinality(ClassesOf(call.values)) = 1
        /\ Cardinality(ClassesOf(call.values)) > 1 => result[1].err = "types do not match"
        /\ \A p \in Permutations(1..Len(call.values)) :
               infer_from_type([k \in 1..Len(call.values) |-> call.values[p[k]]]) = result[1]

\* the twelve Spotfire type names
SpotfireTypeNames ==
    {"Boolean", "Integer", "LongInteger", "SingleReal", "Real", "DateTime", "Date", "Time",
     "TimeSpan", "String", "Binary", "Currency"}

\* the entries of a mapping that name a column of the DataFrame and a
\* Spotfire type
ValidEntries(attrs, mapping) ==
    {k \in 1..Len(mapping) :
        mapping[k].col \in DOMAIN attrs /\ mapping[k].type \in SpotfireTypeNames}

\* C13: set_spotfire_types ends with the declared types equal to the initial
\* ones updated by exactly the valid entries of the mapping; every entry with
\* an unknown column name or an unrecognized type name issues a warning and
\* changes nothing, and the entries after it are still processed.
C13_SetTypesFrame ==
    (call.fn = "set_spotfire_types" /\ result # <<>>) =>
        LET valid == ValidEntries(call.attrs, call.column_types)
            invalid == SelectSeq([k \in 1..Len(call.column_types) |-> k],
                                 LAMBDA k : k \notin valid)
        IN  /\ \A c \in DOMAIN call.attrs :
                   result[1].attrs[c] =
                       IF \E k \in valid : call.column_types[k].col = c
                       THEN call.column_types[CHOOSE k \in valid :
                                                  call.column_types[k].col = c].type
                       ELSE call.attrs[c]
            /\ DOMAIN result[1].attrs = DOMAIN call.attrs
            /\ Len(result[1].warnings) = Len(invalid)
            /\ \A j \in 1..Len(invalid) :
                   result[1].warnings[j] =
                       IF call.column_types[invalid[j]].col \in DOMAIN call.attrs
                       THEN "not recognized" ELSE "not found in data"

\* C13: a mapping whose invalid entry is followed by a valid one has been applied
C13_Witness ==
    /\ call.fn = "set_spotfire_types"
    /\ result # <<>>
    /\ \E j, k \in 1..Len(call.column_types) :
           /\ j < k
           /\ j \notin ValidEntries(call.attrs, call.column_types)
           /\ k \in ValidEntries(call.attrs, call.column_types)
           /\ call.attrs[call.column_types[k].col] # call.column_types[k].type

\* whether a to_bytes call has returned or raised
ToBytesDone == call.fn = "to_bytes" /\ result # <<>>

\* C14: for every value type and every object, _ValueType.to_bytes returns the
\* encoded bytes or raises SBDFError; no other exception type escapes it.
C14_OnlySBDFErrorEscapes ==
    ToBytesDone => result[1].exc \in {"", "SBDFError"}

\* whether a to_bytes call encoded a decimal
DecimalDone == ToBytesDone /\ call.type_id = DECIMAL /\ call.obj.cls = "Decimal"

\* whether the coefficient of decimal d is below 2^96
CoefficientFits(d) == Len(combine_digits(d.s)) <= 12

\* whether the biased exponent of decimal d is in [0, 2^14)
ExponentFits(d) ==
    d.hi + DECIMAL_EXPONENT_BIAS >= 0 /\ d.hi + DECIMAL_EXPONENT_BIAS < 16384

\* C15: for every decimal with a coefficient in [0, 2^96) and an exponent e
\* with 0 <= e + 12320 < 2^14, the encoding is exactly 16 bytes and decodes to
\* the same sign, coefficient and exponent.
C15_DecimalRoundTrip ==
    (DecimalDone /\ CoefficientFits(call.obj) /\ ExponentFits(call.obj)) =>
        /\ result[1].exc = ""
        /\ Len(result[1].data) = 16
        /\ to_python_decimal(result[1].data) = call.obj

\* C16: encoding a decimal whose coefficient does not fit in 96 bits, or whose
\* biased exponent is outside [0, 2^14), fails with the SBDFError "value is
\* outside representable range" and returns no bytes.
C16_DecimalOutOfRangeFails ==
    (DecimalDone /\ ~(CoefficientFits(call.obj) /\ ExponentFits(call.obj))) =>
        result[1].exc = "SBDFError"

\* whether the 7-bit packing of an integer has been written and read back
PackedDone == call.fn = "7bit_packed_int32" /\ result # <<>>

\* C17: reading the bytes written for an integer returns the integer and
\* consumes exactly those bytes; their number is _get_7bit_packed_length, 1
\* below 2^7, 2 below 2^14, 3 below 2^21, 4 below 2^28 and 5 otherwise; every
\* byte but the last has its high bit set and the last has it clear.
C17_PackedInt32RoundTrip ==
    PackedDone =>
        LET r == result[1]
            n == Len(r.written)
        IN /\ r.value = call.value
           /\ r.used = n
           /\ n = r.length
           /\ n = (IF call.value < 2 ^ 7 THEN 1
                   ELSE IF call.value < 2 ^ 14 THEN 2
                   ELSE IF call.value < 2 ^ 21 THEN 3
                   ELSE IF call.value < 2 ^ 28 THEN 4 ELSE 5)
           /\ \A k \in 1..n : (r.written[k] >= 128) <=> (k < n)
           /\ \A k \in 1..n : r.written[k] \in 0..255

\* a five-byte packing has been written and read back
C17_Witness == PackedDone /\ call.value >= 2 ^ 28 /\ Len(result[1].written) = 5

\* whether a bit array has been written and read back
BitArrayDone == call.fn = "bit_array" /\ result # <<>>

\* bit i (from 0) of packed bytes: byte i div 8, mask 0x80 >> (i mod 8)
MaskedBit(bytes, i) == (bytes[(i \div 8) + 1] \div (128 \div (2 ^ (i % 8)))) % 2

\* C18: writing n >= 0 booleans as a bit array emits the count n and exactly
\* ceil(n/8) bytes with bit i stored MSB-first and the padding bits zero;
\* reading a bit array of count n returns exactly its first n bits whatever
\* the padding bits are; n = 0 yields the empty sequence.
C18_BitArrayRoundTrip ==
    BitArrayDone =>
        LET n == Len(call.bits)
            w == result[1].written
        IN /\ w.count = n
           /\ Len(w.bytes) = (n + 7) \div 8
           /\ \A i \in 0..(n - 1) : (MaskedBit(w.bytes, i) = 1) <=> call.bits[i + 1]
           /\ \A i \in n..(8 * Len(w.bytes) - 1) : MaskedBit(w.bytes, i) = 0
           /\ result[1].values = call.bits
           /\ n = 0 => result[1].values = <<>>

\* nine booleans have been read back from two bytes whose padding bits are set
C18_Witness ==
    /\ BitArrayDone
    /\ call.pad
    /\ Len(call.bits) = 9
    /\ result[1].stored # result[1].written.bytes
    /\ result[1].values = call.bits

\* whether the slices of a table of 10,001 rows have been written
Slices10001Done ==
    call.fn = "export_table_slices" /\ call.row_count = 10001 /\ result # <<>>

----------------------------------------------------------------------------
(* The claims on the readers, on crafted files. *)

\* the rows of the table slices of the file, counted in column k
SliceRows(k) == RowsBefore(Len(file.slices) + 1, k)

\* C21: for every file a reader accepts, every returned column is as long as
\* the sum of the row counts of the table slices; a table slice whose column
\* slices, or whose IsInvalid arrays, differ in length never gives a table
\* whose columns differ in length or that has lost rows.
C21_ColumnsHaveAllRows ==
    /\ pc = "imported" =>
          \A k, d \in 1..Len(column_names) : Len(pd_data[column_names[k]]) = SliceRows(d)
    /\ pc = "fast_done" =>
          \A k, d \in 1..Len(column_names) : Len(pandas_data[column_names[k]]) = SliceRows(d)

\* spotfire.sbdf.import_data has returned a table
SbdfReturned == pc = "imported" /\ pd_data # EmptyDict

\* spotfire.fast_sbdf.import_data has returned a table
FastReturned == pc = "fast_done"

\* a plain array of the file declares a negative element count
NegativeCount ==
    \E i \in 1..Len(file.slices) : \E k \in 1..Len(file.slices[i]) :
        file.slices[i][k].values.count < 0

\* C22: whenever the reader decodes a negative signed 32-bit count or length,
\* here a plain array's element count, the read fails with an error and no
\* table is returned.
C22_NegativeCountFails == NegativeCount => ~SbdfReturned /\ ~FastReturned

\* whether a column slice carries a property other than IsInvalid
HasOther(cslice) == \E j \in 1..Len(cslice.property_names) : cslice.property_names[j] # "IsInvalid"

\* the column slice without its properties other than IsInvalid
Strip(cslice) ==
    [values |-> cslice.values,
     property_names |-> IF HasIsInvalid(cslice) THEN <<"IsInvalid">> ELSE <<>>,
     property_values |-> IF HasIsInvalid(cslice) THEN <<IsInvalidOf(cslice)>> ELSE <<>>]

\* the packed missing mask of column k of the file, from the IsInvalid
\* properties alone
MaskOf(k) ==
    PackedBitArray_concatenate([i \in 1..Len(file.slices) |->
        IF HasIsInvalid(file.slices[i][k])
        THEN next_bytes_as_packed_array(IsInvalidOf(file.slices[i][k]))
        ELSE PackedBitArray_empty(file.slices[i][1].values.count)])

\* the packed values of column k of the file
ValuesOf(k) ==
    PackedPlainArray_concatenate([i \in 1..Len(file.slices) |->
        next_bytes_as_packed_array(file.slices[i][k].values)])

\* what makes a reader of the model reject a crafted file: a negative count, a
\* missing mask with a set bit that is not as long as its column, or columns
\* of different lengths
LengthDefect ==
    \/ NegativeCount
    \/ \E k \in 1..Len(file.slices[1]) :
          /\ \E j \in 1..Len(unpack_bit_array(MaskOf(k))) : unpack_bit_array(MaskOf(k))[j]
          /\ Len(unpack_bit_array(MaskOf(k))) # ValuesOf(k).n
    \/ \E k, d \in 1..Len(file.slices[1]) : ValuesOf(k).n # ValuesOf(d).n

\* C23: a column slice carrying properties whose names are not IsInvalid is
\* read without error, and the values and missing cells returned for the
\* column are those returned when the properties are absent.
C23_OtherPropertiesIgnored ==
    /\ pc = "failed" => LengthDefect
    /\ SbdfReturned =>
          \A k \in 1..Len(column_names) :
              pd_data[column_names[k]] =
                  Flatten([i \in 1..Len(file.slices) |->
                              import_column_slice(Strip(file.slices[i][k]))])
    /\ FastReturned =>
          \A k \in 1..Len(column_names) :
              pandas_data[column_names[k]] =
                  apply_missing_mask(CraftedType(column_names[k]),
                                     unpack_packed_array(ValuesOf(k)),
                                     unpack_bit_array(MaskOf(k)))

\* both readers have returned a column with a missing cell from a slice that
\* carries another property ahead of IsInvalid
C23_Witness ==
    /\ FastReturned
    /\ pd_data # EmptyDict
    /\ \E k \in 1..Len(column_names) :
          /\ HasOther(file.slices[1][k])
          /\ file.slices[1][k].property_names[1] # "IsInvalid"
          /\ HasIsInvalid(file.slices[1][k])
          /\ Len(pd_data[column_names[k]]) >= 1
          /\ Len(pandas_data[column_names[k]]) >= 1
          /\ pd_data[column_names[k]][1] = None
          /\ IsMissingCell(pandas_data[column_names[k]][1])

-----------------------------------------------------------------------------
(* SpecTemp: one `with TempFiles()` block.  The body creates files through *)
(* new_file, closes them, and may remove one by its name (new_file passes  *)
(* delete=False: the file is an ordinary file); the block ends normally or *)
(* by an exception, and cleanup may be called again afterwards.            *)

MaxTempFiles == 3

\* TempFiles.cleanup from the i-th tracked file on: os.unlink of each name in
\* turn; os.unlink of a missing name raises and ends the loop
RECURSIVE cleanup_from(_, _)
cleanup_from(i, d) ==
    IF i > Len(_files) THEN [disk |-> d, err |-> ""]
    ELSE IF _files[i] \notin d THEN [disk |-> d, err |-> "FileNotFoundError"]
    ELSE cleanup_from(i + 1, d \ {_files[i]})

cleanup == cleanup_from(1, disk)

\* with TempFiles() as temp_files: __init__ and __enter__
InitTemp ==
    /\ obj = Table("dict", <<"a">>, <<>>, <<>>, "")
    /\ InitPipeline
    /\ InitMeta
    /\ NoCall
    /\ _files = <<>>
    /\ disk = {}
    /\ closed = {}
    /\ with_pc = "body"
    /\ cleanup_err = ""

\* temp_files.new_file(): NamedTemporaryFile(delete=False), tracked
new_file ==
    /\ with_pc = "body"
    /\ Len(_files) < MaxTempFiles
    /\ _files' = Append(_files, Len(_files) + 1)
    /\ disk' = disk \cup {Len(_files) + 1}
    /\ UNCHANGED <<closed, with_pc, cleanup_err, pipeline_vars, meta_vars, fn_vars>>

\* tmp.close() in the body: with delete=False the file stays on disk
tmp_close ==
    /\ with_pc = "body"
    /\ \E f \in Range(_files) \ closed : closed' = closed \cup {f}
    /\ UNCHANGED <<_files, disk, with_pc, cleanup_err, pipeline_vars, meta_vars, fn_vars>>

\* the body (or the code it calls) removes a tracked file by its name
body_unlink ==
    /\ with_pc = "body"
    /\ \E f \in disk : disk' = disk \ {f}
    /\ UNCHANGED <<_files, closed, with_pc, cleanup_err, pipeline_vars, meta_vars, fn_vars>>

\* the block ends, normally or by an exception: __exit__ returns cleanup(),
\* which is None, so an exception of the body is not suppressed
TempExit ==
    /\ with_pc = "body"
    /\ \E how \in {"exited", "exited by exception"} : with_pc' = how
    /\ disk' = cleanup.disk
    /\ cleanup_err' = cleanup.err
    /\ UNCHANGED <<_files, closed, pipeline_vars, meta_vars, fn_vars>>

\* temp_files.cleanup() called again after the block
CleanupAgain ==
    /\ with_pc \in {"exited", "exited by exception"}
    /\ with_pc' = "cleaned again"
    /\ disk' = cleanup.disk
    /\ cleanup_err' = cleanup.err
    /\ UNCHANGED <<_files, closed, pipeline_vars, meta_vars, fn_vars>>

NextTemp ==
    \/ new_file
    \/ tmp_close
    \/ body_unlink
    \/ TempExit
    \/ CleanupAgain

SpecTemp == InitTemp /\ [][NextTemp]_vars

\* C24: when the with block has ended, normally or by an exception, no file
\* created through new_file is left on disk, whatever the state of the other
\* tracked files (closed, or already removed), and a further cleanup raises
\* nothing.
C24_ExitDeletesAll ==
    /\ with_pc \in {"exited", "exited by exception", "cleaned again"}
           => Range(_files) \cap disk = {}
    /\ with_pc = "cleaned again" => cleanup_err = ""

-----------------------------------------------------------------------------
(* The layout of the written file. *)

\* the section ids of the file, in the order written
SectionIds == [k \in 1..Len(file.sections) |-> file.sections[k][3]]

\* C25: a file export_data has finished is one FILEHEADER section of version
\* 1.0, one TABLEMETADATA section, table slices and one TABLEEND section, the
\* last; every TABLESLICE declares the metadata's column count and is followed
\* by exactly that many COLUMNSLICE sections; values are plain arrays, IsInvalid
\* is a bit array, and no value array has another encoding.
C25_FileLayout ==
    pc \in Exported =>
        LET ids == SectionIds
            n == Len(ids)
            cc == file.tmeta.column_count
        IN  /\ n >= 3
            /\ \A k \in 1..n : file.sections[k][1] = 223 /\ file.sections[k][2] = 91
            /\ ids[1] = FILEHEADER /\ file.header = <<1, 0>>
            /\ ids[2] = TABLEMETADATA
            /\ ids[n] = TABLEEND
            /\ ids[3] # COLUMNSLICE
            /\ \A k \in 3..(n - 1) :
                  /\ ids[k] \in {TABLESLICE, COLUMNSLICE}
                  /\ ids[k] = TABLESLICE =>
                        /\ \A j \in 1..cc : k + j < n /\ ids[k + j] = COLUMNSLICE
                        /\ ids[k + cc + 1] # COLUMNSLICE
            /\ Cardinality({k \in 1..n : ids[k] = TABLESLICE}) = Len(file.slices)
            /\ \A i \in 1..Len(file.slices) :
                  /\ Len(file.slices[i]) = cc
                  /\ \A k \in 1..cc :
                        LET cslice == file.slices[i][k]
                        IN  /\ cslice.values.encoding = PLAIN_ARRAY
                            /\ Len(cslice.property_names) = Len(cslice.property_values)
                            /\ \A q \in 1..Len(cslice.property_names) :
                                  /\ cslice.property_names[q] = "IsInvalid"
                                  /\ cslice.property_values[q].encoding = BIT_ARRAY

\* C25 happens: a finished file of two table slices of two columns, one of
\* them with IsInvalid
C25_Witness ==
    /\ pc = "exported"
    /\ Len(file.slices) = 2
    /\ file.tmeta.column_count = 2
    /\ \E i \in 1..2 : \E k \in 1..2 : HasIsInvalid(file.slices[i][k])
    /\ Len(file.sections) = 9

\* C26: in every column slice the writer emits, the value array that is
\* written holds the missing value of the column's type at each cell marked
\* invalid and the input value at each other cell, for fixed-size and
\* variable-length types, for a slice that is a list and for one that is a
\* pandas Series.
C26_SentinelWritten ==
    \A i \in 1..Len(file.slices) : \A k \in 1..Len(obj.names) :
        LET cslice == file.slices[i][k]
            cells == dataslices[i][obj.names[k]]
            stored == read_array(cslice.values)
        IN  /\ Len(stored) = Len(cells)
            /\ \A j \in 1..Len(cells) :
                  IF isnull(cells[j])
                  THEN stored[j] = missing_value(column_types[obj.names[k]])
                  ELSE ValueEq(stored[j], cells[j][1])

-----------------------------------------------------------------------------
(* SpecSections: spotfire.sbdf.import_data on files whose section headers  *)
(* are out of order, carry a wrong magic number, end early or are followed *)
(* by more bytes, and whose table slices declare another column count.     *)

\* a file as the writer lays it out: n table slices of one row
LaidOut(names, n) ==
    [header |-> <<1, 0>>,
     tmeta |-> LET built == export_metadata([names |-> names],
                                            [c \in Range(names) |-> CraftedType(c)])
               IN TableMetadata_write(built.table_metadata, built.column_metadata).out,
     slices |-> [i \in 1..n |-> PlainSlice(names)],
     end |-> TRUE,
     sections |-> <<section_write(FILEHEADER), section_write(TABLEMETADATA)>>
                  \o Flatten([i \in 1..n |-> table_slice_sections(Len(names))])
                  \o <<section_write(TABLEEND)>>]

\* the three bytes a section header may hold in place of the expected ones
SectionHeaders ==
    {<<223, 91, id>> : id \in 0..6} \cup {<<0, 91, TABLESLICE>>, <<223, 0, TABLEEND>>}

\* the file with its p-th section header replaced (p = 0: none is)
WithSection(f, p, header) ==
    IF p = 0 THEN f ELSE [f EXCEPT !.sections[p] = header]

\* the file with its i-th table slice holding the column slices of another
\* number of columns (i = 0: none does)
WithColumnCount(f, i) ==
    IF i = 0 \/ i > Len(f.slices) THEN f
    ELSE [f EXCEPT !.slices[i] =
             IF Len(@) = 1 THEN PlainSlice(<<"a", "b">>) ELSE PlainSlice(<<"a">>)]

\* the file cut after its q-th section header, or followed by one more
\* section header
WithLength(f, q) ==
    IF q = 0 THEN f
    ELSE IF q > Len(f.sections) THEN [f EXCEPT !.sections = Append(@, <<0, 0, 0>>)]
    ELSE [f EXCEPT !.sections = SubSeq(@, 1, q)]

SectionFiles ==
    UNION {{WithLength(WithColumnCount(WithSection(LaidOut(names, n), p, header), i), q) :
               p \in 0..(3 + n * (1 + Len(names))), header \in SectionHeaders,
               i \in 0..n, q \in {0, 1, 1 + n * (1 + Len(names)), 4 + n * (1 + Len(names))}} :
           names \in {<<"a">>, <<"a", "b">>}, n \in 0..MaxSlices}

InitSections ==
    /\ NoTemp
    /\ obj = Table("dict", <<"a">>, <<>>, <<>>, "")
    /\ pc = "exported"
    /\ err = ""
    /\ column_types = EmptyDict
    /\ tmeta = None
    /\ row_count = 0
    /\ row_offset = 0
    /\ dataslices = <<>>
    /\ file \in SectionFiles
    /\ column_names = <<>>
    /\ pd_data = EmptyDict
    /\ read_pos = 0
    /\ table_slices = <<>>
    /\ table_slice_nulls = <<>>
    /\ rows_per_slice = <<>>
    /\ pandas_data = EmptyDict
    /\ InitMeta
    /\ NoCall

NextSections ==
    \/ ImportBegin
    \/ ImportSlice
    \/ ImportEnd

SpecSections == InitSections /\ [][NextSections]_vars

\* the section ids the reader accepts at the p-th section header of a file
\* whose metadata has cc columns
ExpectedIds(p, cc) ==
    IF p = 1 THEN {FILEHEADER}
    ELSE IF p = 2 THEN {TABLEMETADATA}
    ELSE IF (p - 3) % (1 + cc) = 0 THEN {TABLESLICE, TABLEEND}
    ELSE {COLUMNSLICE}

\* the p-th section header does not start with 0xDF 0x5B
BadMagic(p) == file.sections[p][1] # 223 \/ file.sections[p][2] # 91

\* the p-th section header is where a table slice or the end of the table starts
SliceStart(p, cc) == p >= 3 /\ (p - 3) % (1 + cc) = 0

\* the p-th section header starts a table slice of another column count
BadCount(p, cc) ==
    /\ SliceStart(p, cc)
    /\ file.sections[p][3] = TABLESLICE
    /\ ((p - 3) \div (1 + cc)) + 1 <= Len(file.slices)
    /\ Len(file.slices[((p - 3) \div (1 + cc)) + 1]) # cc

\* the reader goes on after the p-th section header: it is the expected one
\* and, where a table slice starts, the slice has the metadata's column count
Passes(p, cc) ==
    /\ ~BadMagic(p)
    /\ file.sections[p][3] \in ExpectedIds(p, cc)
    /\ SliceStart(p, cc) =>
          /\ file.sections[p][3] = TABLESLICE
          /\ ((p - 3) \div (1 + cc)) + 1 <= Len(file.slices)
          /\ ~BadCount(p, cc)

\* the first section header, in file order, at which reading stops: the end of
\* the table, a defect, or the end of the file
StopAt(cc) ==
    CHOOSE p \in 1..(Len(file.sections) + 1) :
        /\ p > Len(file.sections) \/ ~Passes(p, cc)
        /\ \A q \in 1..(p - 1) : Passes(q, cc)

\* C27: the reader takes the sections in the order FILEHEADER, TABLEMETADATA,
\* then TABLESLICE with column_count COLUMNSLICE sections each, until TABLEEND;
\* at the first section header that is not the expected one it raises the
\* magic-number error when the header does not start with 0xDF 0x5B and
\* "unexpected section id" when the id is another one; a TABLESLICE of another
\* column count raises the column-count error; a run that raised returns no
\* table, and a run that met TABLEEND has read nothing behind it.
C27_SectionOrder ==
    pc \in {"failed", "imported"} =>
        LET cc == file.tmeta.column_count
            p == StopAt(cc)
        IN  IF p > Len(file.sections) THEN pc = "failed"
            ELSE IF BadMagic(p)
            THEN pc = "failed" /\ err = "the SBDF magic number wasn't found"
            ELSE IF file.sections[p][3] \notin ExpectedIds(p, cc)
            THEN pc = "failed" /\ err = "unexpected section id"
            ELSE IF file.sections[p][3] = TABLEEND
            THEN /\ pc = "imported"
                 /\ next_section = p
                 /\ read_pos = (p - 3) \div (1 + cc)
                 /\ \A k \in 1..Len(column_names) :
                       Len(pd_data[column_names[k]]) = RowsBefore(read_pos + 1, k)
            ELSE IF BadCount(p, cc)
            THEN pc = "failed" /\ err = "the number of the columnslice doesn't match"
            ELSE pc = "failed"

\* C27 happens: the reader has returned the rows of the table slice before a
\* TABLEEND that is followed by another table slice and more section headers
C27_Witness ==
    /\ pc = "imported"
    /\ read_pos = 1
    /\ Len(file.slices) = 2
    /\ next_section < Len(file.sections)
    /\ \A c \in Range(column_names) : Len(pd_data[c]) = 1

\* the reader never stops before it has returned or raised
ReaderGoesOn == pc \in {"exported", "import"} => ENABLED NextSections

-----------------------------------------------------------------------------
(* The column metadata the writer builds. *)

\* the first two entries of the map are a STRING Name that is the column's
\* name and a BINARY DataType of one byte that is the value type id
NameThenDataType(md, colname, data_type) ==
    /\ Len(md.names) >= 2
    /\ md.names[1] = "Name"
    /\ md.values[1].valuetype = STRING_TYPE
    /\ md.values[1].data = <<colname>>
    /\ md.names[2] = "DataType"
    /\ md.values[2].valuetype = BINARY
    /\ md.values[2].data = <<PyBytes(<<data_type>>)>>

\* C28: the column metadata map the writer builds holds a STRING Name equal to
\* the column's name and a BINARY DataType of exactly one byte, the column's
\* value type id, as its first two entries in that order, ahead of the
\* column's own entries, in the map as built and in the map read back.
C28_NameThenDataTypeFirst ==
    (call.fn = "export_column_metadata" /\ result # <<>>) =>
        /\ NameThenDataType(result[1].built, NameStr(call.colname), call.data_type)
        /\ NameThenDataType(result[1].read, NameStr(call.colname), call.data_type)

-----------------------------------------------------------------------------
(* Skipping a value array. *)

\* C29: for a value array of each of the three encodings, _ValueArray.skip
\* returns without raising and leaves the stream at the position at which
\* _ValueArray.read leaves it: the first byte behind the value array.
C29_SkipMatchesRead ==
    (call.fn = "ValueArray_skip" /\ result # <<>>) =>
        /\ result[1].skip.err = ""
        /\ result[1].skip.pos = result[1].read.pos
        /\ result[1].skip.pos = Len(call.array)

-----------------------------------------------------------------------------
(* The missing mask of spotfire.fast_sbdf. *)

\* the rows of the slices before slice i of the call
MaskOffset(i) == Sum([h \in 1..(i - 1) |-> call.slices[h].n])

\* C30: the missing mask fast_sbdf assembles for a column from k table slices
\* of n_1..n_k rows has length n_1 + ... + n_k; its bit at the rows before
\* slice i plus j is bit j of slice i's IsInvalid array, or false when slice i
\* has no IsInvalid; the padding bits of a slice's last byte never appear in
\* it, also when n_i is not a multiple of 8 or is 0.
C30_MissingMaskAssembled ==
    (call.fn = "missing_mask" /\ result # <<>>) =>
        /\ Len(result[1]) = MaskOffset(Len(call.slices) + 1)
        /\ \A i \in 1..Len(call.slices) : \A j \in 1..call.slices[i].n :
              result[1][MaskOffset(i) + j] =
                  IF call.slices[i].invalid = None THEN FALSE
                  ELSE call.slices[i].invalid[1][j]

\* C30 happens: a mask assembled from a slice of more than eight rows whose
\* last byte has its padding bits set and a row marked invalid, and a slice
\* without IsInvalid whose row count is not a multiple of 8
C30_Witness ==
    /\ call.fn = "missing_mask"
    /\ result # <<>>
    /\ Len(call.slices) = 2
    /\ call.slices[1].n > 8 /\ call.slices[1].n % 8 # 0
    /\ call.slices[1].pad
    /\ call.slices[1].invalid # None
    /\ \E j \in 1..call.slices[1].n : call.slices[1].invalid[1][j]
    /\ \E j \in 1..call.slices[1].n : ~call.slices[1].invalid[1][j]
    /\ call.slices[2].invalid = None
    /\ call.slices[2].n = 1
    /\ Len(result[1]) = call.slices[1].n + 1

====
